---- MODULE Spec2Model ----
(***************************************************************************)
(* SmokeBot: the session coordination engine.                              *)
(*                                                                         *)
(* The tables of the SQLite store (users, sessions, session_responses),    *)
(* the operations of SmokeService split at every SQL statement, the        *)
(* handlers of the bot's update loop and the auto-complete goroutine.      *)
(*                                                                         *)
(* Time is counted in units of MinutesPerUnit minutes since midnight of    *)
(* day 0.  The clock has nanoseconds: nsec tells whether it has passed the  *)
(* last whole second of its unit, which in the last unit of a day is       *)
(* 23:59:59.000.  Every SQL statement is one atomic step; a statement may  *)
(* fail (store error), and a foreign key is enforced or not depending on   *)
(* the pooled connection the statement happens to run on.                  *)
(***************************************************************************)
EXTENDS Integers, Sequences, FiniteSets, TLC

VARIABLES
    now,        \* the wall clock (time.Now), in units
    nsec,       \* 1 when the wall clock is past the last whole second of its unit
    users,      \* table users: id -> row or NoUser
    sessions,   \* table sessions: sequence of rows, id = index (AUTOINCREMENT)
    responses,  \* table session_responses: set of rows
    pc,         \* position of every thread of control
    loc,        \* locals of every thread of control
    sent,       \* messages handed to the transport by the handler in progress
    announced,  \* closure announcements made so far, per session
    lastKind,   \* kind of the last response applied per (session, user)
    crashed     \* the process died on a nil dereference

vars == <<now, nsec, users, sessions, responses, pc, loc, sent, announced, lastKind, crashed>>

-----------------------------------------------------------------------------
(* Bounds of the model *)

MaxUser == 3        \* participants are 1..MaxUser
MaxSessions == 2    \* rows the sessions table may hold
FirstNow == 187     \* the clock when the bot starts (22:45 of day 1)
SvcFirstNow == 94   \* the clock when direct callers of the service start (23:30)
MaxTicks == 2       \* units the clock advances in a run
MaxUndelivered == 1 \* deliveries of one fan-out the transport may refuse
MorningNow == 131   \* the clock when the bot starts in the morning (08:45 of day 1)
MaxResponses == 2   \* rows the session_responses table may hold

(* Program constants *)

MinutesPerUnit == 15    \* the clock's unit: the reaper's threshold
StartHour == 9
EndHour == 23

AutoCompleteAge == 15 \div MinutesPerUnit
CleanupAge == 60 \div MinutesPerUnit
UnitsPerHour == 60 \div MinutesPerUnit
UnitsPerDay == 24 * UnitsPerHour

Null == -1              \* a NULL timestamp / nil pointer to a time

UserIds == 1..MaxUser
SessionIds == 1..MaxSessions

ReservedName == "eyerise"

SessionStatusActive == "active"
SessionStatusCompleted == "completed"
SessionStatusCancelled == "cancelled"
SessionStatuses == {SessionStatusActive, SessionStatusCompleted, SessionStatusCancelled}

ResponseAccepted == "accepted"
ResponseAcceptedDelayed == "accepted_delayed"
ResponseDenied == "denied"
ResponseRemote == "remote"
ResponseTypes == {ResponseAccepted, ResponseAcceptedDelayed, ResponseDenied, ResponseRemote}


(* Outcomes of a service call: nil, or the error it returns *)
Ok == "ok"
ErrAlreadyActive == "there is already an active smoking session"
ErrNotFound == "session not found"
ErrNotActive == "session is not active"
ErrUserNotFound == "user not found"
ErrStore == "store error"

-----------------------------------------------------------------------------
(* The clock *)

Hour(t) == (t % UnitsPerDay) \div UnitsPerHour

\* time.Date(y, m, d, 23, 59, 59): the last unit of the day of t
EndOfDay(t) == (t \div UnitsPerDay) * UnitsPerDay + ((23 * 60 + 59) \div MinutesPerUnit)

\* (mutant) the end hour counted in
IsWorkingHours_EndHourIn(t) == Hour(t) >= StartHour /\ Hour(t) <= EndHour

\* Config.IsWorkingHours: hour >= StartHour && hour < EndHour
IsWorkingHours(t) == Hour(t) >= StartHour /\ Hour(t) < EndHour

\* (mutant) remote_until <= now
Earlier_OrAt(until, t, ns) == until <= t

\* the stored instant until (the last whole second of its unit, nanoseconds 0) lies
\* before the clock reading (t, ns)
Earlier(until, t, ns) == until < t \/ (until = t /\ ns = 1)

-----------------------------------------------------------------------------
(* users table *)

User(id, username, firstName, isRemoteToday, remoteUntil, isHidden) ==
    [id |-> id, username |-> username, firstName |-> firstName,
     isRemoteToday |-> isRemoteToday, remoteUntil |-> remoteUntil, isHidden |-> isHidden]

NoUser == User(0, "", "", FALSE, Null, FALSE)    \* a nil *domain.User

\* SELECT ... FROM users WHERE id = ?
UserGetByID(us, id) == IF id \in DOMAIN us THEN us[id] ELSE NoUser

\* (mutant) hidden exactly while the username is the reserved one
AutoHide_WhileNamed(u) == [u EXCEPT !.isHidden = (u.username = ReservedName)]

\* the row Create and Update write: "eyerise" is forced hidden
AutoHide(u) == IF u.username = ReservedName THEN [u EXCEPT !.isHidden = TRUE] ELSE u

\* INSERT INTO users
UserCreate(us, u) == [us EXCEPT ![u.id] = AutoHide(u)]

\* (mutant) Update writes the flag it is given
UserUpdate_AsGiven(us, u) ==
    IF u.id \in DOMAIN us /\ us[u.id].id # 0 THEN [us EXCEPT ![u.id] = u] ELSE us

\* UPDATE users SET username, first_name, is_remote_today, remote_until, is_hidden WHERE id = ?
UserUpdate(us, u) ==
    IF u.id \in DOMAIN us /\ us[u.id].id # 0 THEN [us EXCEPT ![u.id] = AutoHide(u)] ELSE us

\* (mutant) the UPDATE sets the flag and leaves remote_until
UserSetRemoteStatus_FlagOnly(us, id, until) ==
    IF id \in DOMAIN us /\ us[id].id # 0
    THEN [us EXCEPT ![id].isRemoteToday = TRUE]
    ELSE us

\* UPDATE users SET is_remote_today = 1, remote_until = ? WHERE id = ?
UserSetRemoteStatus(us, id, until) ==
    IF id \in DOMAIN us /\ us[id].id # 0
    THEN [us EXCEPT ![id].isRemoteToday = TRUE, ![id].remoteUntil = until]
    ELSE us

\* (mutant) the UPDATE without "AND remote_until < ?"
ClearExpiredRemoteStatus_All(us, t, ns) ==
    [id \in DOMAIN us |->
        IF us[id].id # 0 /\ us[id].isRemoteToday
        THEN [us[id] EXCEPT !.isRemoteToday = FALSE, !.remoteUntil = Null]
        ELSE us[id]]

\* UPDATE users SET is_remote_today = 0, remote_until = NULL
\* WHERE is_remote_today = 1 AND remote_until < now
ClearExpiredRemoteStatus(us, t, ns) ==
    [id \in DOMAIN us |->
        IF us[id].id # 0 /\ us[id].isRemoteToday /\ us[id].remoteUntil # Null
           /\ Earlier(us[id].remoteUntil, t, ns)
        THEN [us[id] EXCEPT !.isRemoteToday = FALSE, !.remoteUntil = Null]
        ELSE us[id]]

UserExists(us, id) == UserGetByID(us, id).id # 0

DisplayName(u) == IF u.username = "" THEN u.firstName ELSE u.username

-----------------------------------------------------------------------------
(* sessions table *)

Session(id, initiator, status, createdAt, completedAt) ==
    [id |-> id, initiatorID |-> initiator, status |-> status,
     createdAt |-> createdAt, completedAt |-> completedAt]

NoSession == Session(0, 0, "", Null, Null)    \* a nil *domain.Session

\* INSERT INTO sessions (initiator_id, status, created_at)
SessionCreate(ss, initiator, status, t) ==
    Append(ss, Session(Len(ss) + 1, initiator, status, t, Null))

\* SELECT ... FROM sessions WHERE id = ?
SessionGetByID(ss, id) == IF id \in 1..Len(ss) THEN ss[id] ELSE NoSession

ActiveSessions(ss) == {i \in 1..Len(ss) : ss[i].status = SessionStatusActive}

\* (mutant) the query without its WHERE status = 'active'
GetActiveSession_AnyStatus(ss) == IF Len(ss) = 0 THEN {NoSession} ELSE {ss[Len(ss)]}

\* SELECT ... WHERE status = 'active' ORDER BY created_at DESC LIMIT 1:
\* the rows the query may return (rows of equal created_at come in any order)
GetActiveSession(ss) ==
    IF ActiveSessions(ss) = {} THEN {NoSession}
    ELSE {ss[i] : i \in {j \in ActiveSessions(ss) :
                            \A k \in ActiveSessions(ss) : ss[k].createdAt <= ss[j].createdAt}}

\* UPDATE sessions SET status = ?, completed_at = ? WHERE id = ?
SessionUpdate(ss, s) ==
    IF s.id \in 1..Len(ss)
    THEN [ss EXCEPT ![s.id].status = s.status, ![s.id].completedAt = s.completedAt]
    ELSE ss

\* UPDATE sessions SET status = 'completed', completed_at = now WHERE id = ?
RepoCompleteSession(ss, id, t) ==
    IF id \in 1..Len(ss)
    THEN [ss EXCEPT ![id].status = SessionStatusCompleted, ![id].completedAt = t]
    ELSE ss

-----------------------------------------------------------------------------
(* session_responses table *)

Response(id, sid, uid, kind, t) ==
    [id |-> id, sessionID |-> sid, userID |-> uid, response |-> kind, createdAt |-> t]

RowsOf(rs, sid, uid) == {r \in rs : r.sessionID = sid /\ r.userID = uid}

NextResponseID(rs) == Cardinality(rs) + 1

\* (mutant) the INSERT without its ON CONFLICT clause and without UNIQUE(session_id, user_id)
AddResponse_Insert(rs, sid, uid, kind, t) ==
    rs \cup {Response(NextResponseID(rs), sid, uid, kind, t)}

\* (mutant) ON CONFLICT(session_id, user_id) DO NOTHING
AddResponse_KeepFirst(rs, sid, uid, kind, t) ==
    IF RowsOf(rs, sid, uid) = {}
    THEN rs \cup {Response(NextResponseID(rs), sid, uid, kind, t)}
    ELSE rs

\* INSERT INTO session_responses ... ON CONFLICT(session_id, user_id)
\* DO UPDATE SET response = ?, created_at = ?
AddResponse(rs, sid, uid, kind, t) ==
    IF RowsOf(rs, sid, uid) = {}
    THEN rs \cup {Response(NextResponseID(rs), sid, uid, kind, t)}
    ELSE {IF r.sessionID = sid /\ r.userID = uid
          THEN [r EXCEPT !.response = kind, !.createdAt = t]
          ELSE r : r \in rs}

RECURSIVE SortRows(_)
SortRows(rows) ==
    IF rows = {} THEN <<>>
    ELSE LET first == CHOOSE r \in rows : \A q \in rows :
                          \/ r.createdAt < q.createdAt
                          \/ r.createdAt = q.createdAt /\ r.id <= q.id
         IN <<first>> \o SortRows(rows \ {first})

\* SELECT ... FROM session_responses WHERE session_id = ? ORDER BY created_at
GetResponses(rs, sid) == SortRows({r \in rs : r.sessionID = sid})

-----------------------------------------------------------------------------
(* Participants as Telegram presents them *)

TgFirstName(u) == "F" \o ToString(u)

\* the usernames participant u may carry; the last participant may take the reserved one
TgUsernames(u) ==
    IF u = MaxUser THEN {ReservedName, "user" \o ToString(u)} ELSE {"user" \o ToString(u)}

\* the participants who start sessions: a registered one and the last one
Initiators == {1, MaxUser}

NewUser(u, username) == User(u, username, TgFirstName(u), FALSE, Null, FALSE)

NoResponses == [k \in SessionIds \X UserIds |-> ""]

-----------------------------------------------------------------------------
(* Threads of control.  "fg" is the update loop of Bot.Start, "reaper" the  *)
(* goroutine autoCompleteSessionsRoutine; "c1", "c2" are direct concurrent  *)
(* callers of the SmokeService API.                                         *)

Procs == {"fg", "reaper", "c1", "c2"}
Callers == {"c1", "c2"}

Locals ==
    [ret |-> "returned", res |-> Ok, sid |-> 0, uid |-> 0, kind |-> "", uname |-> "",
     sess |-> NoSession, usr |-> NoUser, list |-> {}, prior |-> "",
     from |-> 0, act |-> "", hsid |-> 0, hsess |-> NoSession, name |-> "", rlist |-> <<>>,
     groups |-> <<>>, failed |-> {}, undelivered |-> {}]

At(p, label) == ~crashed /\ pc[p] = label
Goto(p, label) == pc' = [pc EXCEPT ![p] = label]

\* the call returns (s, r) to its caller; its arguments go out of scope (kind is kept
\* to say what was asked for)
Return(p, r, s) ==
    /\ pc' = [pc EXCEPT ![p] = loc[p].ret]
    /\ loc' = [loc EXCEPT ![p].res = r, ![p].sess = s, ![p].sid = 0, ![p].uid = 0,
                          ![p].uname = "", ![p].usr = NoUser]

\* a statement that returns an error (the store is unreachable, or a FOREIGN KEY the
\* connection enforces is violated): the call returns it, the store is untouched
Fails(p) ==
    /\ Return(p, ErrStore, NoSession)
    /\ UNCHANGED <<users, sessions, responses, lastKind>>

-----------------------------------------------------------------------------
(* SmokeService.StartSession(initiatorID = loc.uid) *)

\* (mutant) Create without looking for an active session
StartSession_Unchecked(p) ==
    /\ At(p, "StartSession")
    /\ \/ Fails(p)
       \/ /\ Goto(p, "StartSession_Create") /\ UNCHANGED loc
          /\ UNCHANGED <<users, sessions, responses, lastKind>>
    /\ UNCHANGED <<now, nsec, sent, announced, crashed>>

StartSession(p) ==
    /\ At(p, "StartSession")
    /\ \/ Fails(p)
       \/ \E a \in GetActiveSession(sessions) :
            /\ IF a.id # 0
               THEN Return(p, ErrAlreadyActive, NoSession)
               ELSE Goto(p, "StartSession_Create") /\ UNCHANGED loc
            /\ UNCHANGED <<users, sessions, responses, lastKind>>
    /\ UNCHANGED <<now, nsec, sent, announced, crashed>>

StartSession_Create(p) ==
    /\ At(p, "StartSession_Create")
    /\ \/ Fails(p)
       \/ /\ Len(sessions) < MaxSessions
          /\ sessions' = SessionCreate(sessions, loc[p].uid, SessionStatusActive, now)
          /\ Return(p, Ok, sessions'[Len(sessions')])
          /\ UNCHANGED <<users, responses, lastKind>>
    /\ UNCHANGED <<now, nsec, sent, announced, crashed>>

-----------------------------------------------------------------------------
(* SmokeService.RespondToSession(sessionID = loc.sid, userID = loc.uid,    *)
(* responseType = loc.kind)                                                *)

\* (mutant) the status of the session is not looked at
RespondToSession_Unchecked(p) ==
    /\ At(p, "RespondToSession")
    /\ \/ Fails(p)
       \/ LET s == SessionGetByID(sessions, loc[p].sid) IN
            /\ IF s.id = 0
               THEN Return(p, ErrNotFound, NoSession)
               ELSE /\ Goto(p, IF loc[p].kind = ResponseRemote
                               THEN "RespondToSession_SetRemote"
                               ELSE "RespondToSession_Add")
                    /\ loc' = [loc EXCEPT ![p].sess = s]
            /\ UNCHANGED <<users, sessions, responses, lastKind>>
    /\ UNCHANGED <<now, nsec, sent, announced, crashed>>

RespondToSession(p) ==
    /\ At(p, "RespondToSession")
    /\ \/ Fails(p)
       \/ LET s == SessionGetByID(sessions, loc[p].sid) IN
            /\ IF s.id = 0
               THEN Return(p, ErrNotFound, NoSession)
               ELSE IF s.status # SessionStatusActive
               THEN Return(p, ErrNotActive, NoSession)
               ELSE /\ Goto(p, IF loc[p].kind = ResponseRemote
                               THEN "RespondToSession_SetRemote"
                               ELSE "RespondToSession_Add")
                    /\ loc' = [loc EXCEPT ![p].sess = s]
            /\ UNCHANGED <<users, sessions, responses, lastKind>>
    /\ UNCHANGED <<now, nsec, sent, announced, crashed>>

\* (mutant) remote for the next 24 hours
SetRemoteStatus_ADay(us, id, t) == UserSetRemoteStatus(us, id, t + UnitsPerDay)

\* SmokeService.SetRemoteStatus(userID): remote until the end of the current day
SetRemoteStatus(us, id, t) == UserSetRemoteStatus(us, id, EndOfDay(t))

RespondToSession_SetRemote(p) ==
    /\ At(p, "RespondToSession_SetRemote")
    /\ \/ Fails(p)
       \/ /\ users' = SetRemoteStatus(users, loc[p].uid, now)
          /\ Goto(p, "RespondToSession_Add")
          /\ UNCHANGED <<loc, sessions, responses, lastKind>>
    /\ UNCHANGED <<now, nsec, sent, announced, crashed>>

RespondToSession_Add(p) ==
    /\ At(p, "RespondToSession_Add")
    /\ \/ Fails(p)
       \/ /\ responses' = AddResponse(responses, loc[p].sid, loc[p].uid, loc[p].kind, now)
          /\ lastKind' = [lastKind EXCEPT ![<<loc[p].sid, loc[p].uid>>] = loc[p].kind]
          /\ pc' = [pc EXCEPT ![p] = loc[p].ret]
          /\ loc' = [loc EXCEPT ![p].res = Ok, ![p].sess = NoSession,
                                ![p].sid = 0, ![p].uid = 0,
                                ![p].prior = lastKind[<<loc[p].sid, loc[p].uid>>]]
          /\ UNCHANGED <<users, sessions>>
    /\ UNCHANGED <<now, nsec, sent, announced, crashed>>

-----------------------------------------------------------------------------
(* SmokeService.CancelSession(sessionID = loc.sid) *)

\* (mutant) CancelSession sets the status and forgets CompletedAt
Cancelled_StatusOnly(s, t) == [s EXCEPT !.status = SessionStatusCancelled]

\* the session value CancelSession hands to Update
Cancelled(s, t) == [s EXCEPT !.status = SessionStatusCancelled, !.completedAt = t]

CancelSession(p) ==
    /\ At(p, "CancelSession")
    /\ \/ Fails(p)
       \/ LET s == SessionGetByID(sessions, loc[p].sid) IN
            /\ IF s.id = 0
               THEN Return(p, ErrNotFound, NoSession)
               ELSE Goto(p, "CancelSession_Update") /\ loc' = [loc EXCEPT ![p].sess = s]
            /\ UNCHANGED <<users, sessions, responses, lastKind>>
    /\ UNCHANGED <<now, nsec, sent, announced, crashed>>

CancelSession_Update(p) ==
    /\ At(p, "CancelSession_Update")
    /\ \/ Fails(p)
       \/ /\ sessions' = SessionUpdate(sessions, Cancelled(loc[p].sess, now))
          /\ Return(p, Ok, NoSession)
          /\ UNCHANGED <<users, responses, lastKind>>
    /\ UNCHANGED <<now, nsec, sent, announced, crashed>>

-----------------------------------------------------------------------------
(* SmokeService.CompleteSession(sessionID = loc.sid) *)

CompleteSession(p) ==
    /\ At(p, "CompleteSession")
    /\ \/ Fails(p)
       \/ /\ sessions' = RepoCompleteSession(sessions, loc[p].sid, now)
          /\ Return(p, Ok, NoSession)
          /\ UNCHANGED <<users, responses, lastKind>>
    /\ UNCHANGED <<now, nsec, sent, announced, crashed>>

-----------------------------------------------------------------------------
(* SmokeService.AutoCompleteOldSessions(): returns (loc.sess, loc.res) *)

\* (mutant) stale after an hour, whatever the threshold
IsStale_AfterAnHour(s, t, age) == t - s.createdAt > CleanupAge

\* (mutant) the comparison with the threshold included
IsStale_AtThreshold(s, t, age) == t - s.createdAt >= age

\* time.Since(session.CreatedAt) > 15*time.Minute
IsStale(s, t, age) == t - s.createdAt > age

AutoCompleteOldSessions(p) ==
    /\ At(p, "AutoCompleteOldSessions")
    /\ \/ Fails(p)
       \/ \E a \in GetActiveSession(sessions) :
            /\ IF a.id # 0 /\ IsStale(a, now, AutoCompleteAge)
               THEN Goto(p, "AutoCompleteOldSessions_Complete")
                    /\ loc' = [loc EXCEPT ![p].sess = a, ![p].sid = a.id]
               ELSE Return(p, Ok, NoSession)
            /\ UNCHANGED <<users, sessions, responses, lastKind>>
    /\ UNCHANGED <<now, nsec, sent, announced, crashed>>

AutoCompleteOldSessions_Complete(p) ==
    /\ At(p, "AutoCompleteOldSessions_Complete")
    /\ \/ Fails(p)
       \/ /\ sessions' = RepoCompleteSession(sessions, loc[p].sid, now)
          /\ Return(p, Ok, loc[p].sess)
          /\ UNCHANGED <<users, responses, lastKind>>
    /\ UNCHANGED <<now, nsec, sent, announced, crashed>>

-----------------------------------------------------------------------------
(* SmokeService.CleanupOldSessions(), called once by NewSmokeService *)

\* (mutant) the startup pass with the threshold of the reaper
CleanupOldSessions_QuarterHour(p) ==
    /\ At(p, "CleanupOldSessions")
    /\ \/ Fails(p)
       \/ \E a \in GetActiveSession(sessions) :
            /\ IF a.id # 0 /\ IsStale(a, now, AutoCompleteAge)
               THEN Goto(p, "CompleteSession") /\ loc' = [loc EXCEPT ![p].sid = a.id]
               ELSE Return(p, Ok, NoSession)
            /\ UNCHANGED <<users, sessions, responses, lastKind>>
    /\ UNCHANGED <<now, nsec, sent, announced, crashed>>

\* GetActiveSession; on an error or no session, return; a session older than an hour
\* is handed to CompleteSession, whose error is dropped
CleanupOldSessions(p) ==
    /\ At(p, "CleanupOldSessions")
    /\ \/ Fails(p)
       \/ \E a \in GetActiveSession(sessions) :
            /\ IF a.id # 0 /\ IsStale(a, now, CleanupAge)
               THEN Goto(p, "CompleteSession") /\ loc' = [loc EXCEPT ![p].sid = a.id]
               ELSE Return(p, Ok, NoSession)
            /\ UNCHANGED <<users, sessions, responses, lastKind>>
    /\ UNCHANGED <<now, nsec, sent, announced, crashed>>

-----------------------------------------------------------------------------
(* SmokeService.RegisterUser(id = loc.uid, username = loc.uname) *)

RegisterUser(p) ==
    /\ At(p, "RegisterUser")
    /\ \/ Fails(p)
       \/ LET existingUser == UserGetByID(users, loc[p].uid) IN
            /\ IF existingUser.id # 0
               THEN /\ Goto(p, "RegisterUser_Update")
                    /\ loc' = [loc EXCEPT ![p].usr =
                                 [existingUser EXCEPT !.username = loc[p].uname,
                                                      !.firstName = TgFirstName(loc[p].uid)]]
               ELSE /\ Goto(p, "RegisterUser_Create")
                    /\ loc' = [loc EXCEPT ![p].usr = NewUser(loc[p].uid, loc[p].uname)]
            /\ UNCHANGED <<users, sessions, responses, lastKind>>
    /\ UNCHANGED <<now, nsec, sent, announced, crashed>>

RegisterUser_Update(p) ==
    /\ At(p, "RegisterUser_Update")
    /\ \/ Fails(p)
       \/ /\ users' = UserUpdate(users, loc[p].usr)
          /\ Return(p, Ok, NoSession)
          /\ UNCHANGED <<sessions, responses, lastKind>>
    /\ UNCHANGED <<now, nsec, sent, announced, crashed>>

RegisterUser_Create(p) ==
    /\ At(p, "RegisterUser_Create")
    /\ \/ Fails(p)
       \/ /\ ~UserExists(users, loc[p].uid)      \* PRIMARY KEY (id)
          /\ users' = UserCreate(users, loc[p].usr)
          /\ Return(p, Ok, NoSession)
          /\ UNCHANGED <<sessions, responses, lastKind>>
    /\ UNCHANGED <<now, nsec, sent, announced, crashed>>

-----------------------------------------------------------------------------
(* SmokeService.GetActiveUsers(excludeUserID = loc.uid): returns loc.list *)

\* the users GetActiveUsers keeps of the rows GetAll returns
ActiveUsers(us, excludeUserID) ==
    {id \in DOMAIN us : /\ us[id].id # 0
                        /\ id # excludeUserID
                        /\ ~us[id].isRemoteToday
                        /\ ~us[id].isHidden}

GetActiveUsers(p) ==
    /\ At(p, "GetActiveUsers")
    /\ \/ Fails(p)
       \/ /\ users' = ClearExpiredRemoteStatus(users, now, nsec)
          /\ Goto(p, "GetActiveUsers_All")
          /\ UNCHANGED <<loc, sessions, responses, lastKind>>
    /\ UNCHANGED <<now, nsec, sent, announced, crashed>>

GetActiveUsers_All(p) ==
    /\ At(p, "GetActiveUsers_All")
    /\ \/ Fails(p)
       \/ /\ pc' = [pc EXCEPT ![p] = loc[p].ret]
          /\ loc' = [loc EXCEPT ![p].res = Ok, ![p].list = ActiveUsers(users, loc[p].uid),
                                ![p].uid = 0]
          /\ UNCHANGED <<users, sessions, responses, lastKind>>
    /\ UNCHANGED <<now, nsec, sent, announced, crashed>>

-----------------------------------------------------------------------------
(* SmokeService.SetRemoteStatus(userID = loc.uid), called on its own *)

SetRemoteStatus_Update(p) ==
    /\ At(p, "SetRemoteStatus_Update")
    /\ \/ Fails(p)
       \/ /\ users' = SetRemoteStatus(users, loc[p].uid, now)
          /\ Return(p, Ok, NoSession)
          /\ UNCHANGED <<sessions, responses, lastKind>>
    /\ UNCHANGED <<now, nsec, sent, announced, crashed>>

-----------------------------------------------------------------------------
(* SmokeService.ClearRemoteStatus(userID = loc.uid) *)

\* user.IsRemoteToday = false; user.RemoteUntil = nil
BackInOffice(user) == [user EXCEPT !.isRemoteToday = FALSE, !.remoteUntil = Null]

ClearRemoteStatus(p) ==
    /\ At(p, "ClearRemoteStatus")
    /\ \/ Fails(p)
       \/ LET user == UserGetByID(users, loc[p].uid) IN
            /\ IF user.id = 0
               THEN Return(p, ErrUserNotFound, NoSession)
               ELSE /\ Goto(p, "ClearRemoteStatus_Update")
                    /\ loc' = [loc EXCEPT ![p].usr = BackInOffice(user)]
            /\ UNCHANGED <<users, sessions, responses, lastKind>>
    /\ UNCHANGED <<now, nsec, sent, announced, crashed>>

ClearRemoteStatus_Update(p) ==
    /\ At(p, "ClearRemoteStatus_Update")
    /\ \/ Fails(p)
       \/ /\ users' = UserUpdate(users, loc[p].usr)
          /\ Return(p, Ok, NoSession)
          /\ UNCHANGED <<sessions, responses, lastKind>>
    /\ UNCHANGED <<now, nsec, sent, announced, crashed>>

-----------------------------------------------------------------------------
(* The clock advances *)

Tick(last) ==
    /\ ~crashed
    /\ now < last
    /\ now' = now + 1
    /\ nsec' = 0
    /\ UNCHANGED <<users, sessions, responses, pc, loc, sent, announced, lastKind, crashed>>

\* the clock passes the last whole second of its unit
PassLastSecond ==
    /\ ~crashed
    /\ nsec = 0
    /\ nsec' = 1
    /\ UNCHANGED <<now, users, sessions, responses, pc, loc, sent, announced, lastKind,
                   crashed>>

-----------------------------------------------------------------------------
(* The bot: what it hands to the transport *)

Msg(to, kind, sid, names) == [to |-> to, kind |-> kind, sid |-> sid, names |-> names]

AcceptedKinds == {ResponseAccepted, ResponseAcceptedDelayed}

\* SmokeService.GetUser from a handler: (nil, err) when the statement fails
GetUser(us, id, bad) == IF id \in bad THEN NoUser ELSE UserGetByID(us, id)

\* the deliveries of one fan-out that fail (the transport returns an error)
Failures(msgs) == {fail \in SUBSET (1..Len(msgs)) : Cardinality(fail) <= MaxUndelivered}

\* a fan-out that gives up at the first delivery the transport refuses
RECURSIVE Attempted_UntilFailure(_, _)
Attempted_UntilFailure(msgs, fail) ==
    IF msgs = <<>> THEN <<>>
    ELSE IF 1 \in fail THEN <<Head(msgs)>>
    ELSE <<Head(msgs)>> \o Attempted_UntilFailure(Tail(msgs), {i - 1 : i \in fail})

\* the messages handed to the transport by a loop over msgs: each one is sent,
\* an error of b.api.Send is logged, and the loop goes on to the next
RECURSIVE Attempted(_, _)
Attempted(msgs, fail) ==
    IF msgs = <<>> THEN <<>>
    ELSE <<Head(msgs)>> \o Attempted(Tail(msgs), {i - 1 : i \in fail \ {1}})

\* msgs are sent; the deliveries in fail are refused
Deliver(p, msgs, fail) ==
    sent' = [sent EXCEPT ![p] = sent[p] \o Attempted(msgs, fail)]

Send(p, msgs) == \E fail \in Failures(msgs) : Deliver(p, msgs, fail)

Finish(p) ==
    /\ At(p, "done")
    /\ Goto(p, "idle")
    /\ loc' = [loc EXCEPT ![p] = Locals]
    /\ sent' = [sent EXCEPT ![p] = <<>>]
    /\ UNCHANGED <<now, nsec, users, sessions, responses, announced, lastKind, crashed>>

\* the handler ends, having sent msgs
Done(p, msgs) ==
    /\ Goto(p, "done")
    /\ \E fail \in Failures(msgs) :
         /\ Deliver(p, msgs, fail)
         /\ loc' = [loc EXCEPT ![p].undelivered = {Len(sent[p]) + i : i \in fail}]
    /\ UNCHANGED crashed

\* a nil pointer is dereferenced after msgs were sent: the process dies
Panic(p, msgs) ==
    /\ crashed' = TRUE
    /\ Send(p, msgs)
    /\ UNCHANGED <<pc, loc>>

\* the handler calls a service operation
Invoke(p, label, ret, l) ==
    /\ Goto(p, label)
    /\ loc' = [loc EXCEPT ![p] = [l EXCEPT !.ret = ret]]
    /\ UNCHANGED <<sent, crashed>>

Announce(sid, what, msgs) ==
    announced' = IF msgs # <<>> /\ sid \in SessionIds
                 THEN [announced EXCEPT ![sid] = Append(announced[sid], what)]
                 ELSE announced

-----------------------------------------------------------------------------
(* Bot.notifyParticipants(session, responderID, responderName, responseType) *)

RECURSIVE NotifyAccepted(_, _, _, _, _, _)
NotifyAccepted(rows, session, responderID, responderName, us, bad) ==
    IF rows = <<>> THEN <<>>
    ELSE LET resp == Head(rows)
             user == GetUser(us, resp.userID, bad)
             rest == NotifyAccepted(Tail(rows), session, responderID, responderName, us, bad)
         IN IF resp.userID = responderID \/ resp.userID = session.initiatorID THEN rest
            ELSE IF resp.response \in AcceptedKinds /\ (user.id = 0 \/ ~user.isHidden)
            THEN <<Msg(resp.userID, "response", session.id, <<responderName>>)>> \o rest
            ELSE rest

notifyParticipants(session, responderID, responderName, responseType, us, rs, bad, rsErr) ==
    LET responder == GetUser(us, responderID, bad)
        initiator == GetUser(us, session.initiatorID, bad)
    IN IF responderID \in bad THEN <<>>
       ELSE IF responder.id # 0 /\ responder.isHidden THEN <<>>
       ELSE IF rsErr THEN <<>>
       ELSE (IF session.initiatorID # responderID /\ (initiator.id = 0 \/ ~initiator.isHidden)
             THEN <<Msg(session.initiatorID, "response", session.id, <<responderName>>)>>
             ELSE <<>>)
            \o (IF responseType \in AcceptedKinds
                THEN NotifyAccepted(GetResponses(rs, session.id), session, responderID,
                                    responderName, us, bad)
                ELSE <<>>)

-----------------------------------------------------------------------------
(* Bot.notifySessionCompleted(session) *)

\* the names the final summary lists: the visible users who accepted, then the delayed
RECURSIVE Attended(_, _, _, _)
Attended(rows, kind, us, bad) ==
    IF rows = <<>> THEN <<>>
    ELSE LET resp == Head(rows)
             user == GetUser(us, resp.userID, bad)
             rest == Attended(Tail(rows), kind, us, bad)
         IN IF resp.userID \in bad \/ user.isHidden \/ resp.response # kind THEN rest
            ELSE <<DisplayName(user)>> \o rest

RECURSIVE NotifyCompleted(_, _, _, _, _, _)
NotifyCompleted(rows, session, names, notifiedUsers, us, bad) ==
    IF rows = <<>> THEN <<>>
    ELSE LET resp == Head(rows)
             user == GetUser(us, resp.userID, bad)
         IN IF resp.response \in AcceptedKinds /\ resp.userID \notin notifiedUsers
            THEN (IF user.id = 0 \/ ~user.isHidden
                  THEN <<Msg(resp.userID, "completed", session.id, names)>>
                  ELSE <<>>)
                 \o NotifyCompleted(Tail(rows), session, names,
                                    notifiedUsers \cup {resp.userID}, us, bad)
            ELSE NotifyCompleted(Tail(rows), session, names, notifiedUsers, us, bad)

\* the loop that builds the summary reads user.IsHidden of a user that has no row
SummaryPanics(rows, us, bad) ==
    \E i \in 1..Len(rows) : rows[i].userID \notin bad /\ ~UserExists(us, rows[i].userID)

notifySessionCompleted(session, us, rs, bad) ==
    LET rows == GetResponses(rs, session.id)
        names == Attended(rows, ResponseAccepted, us, bad)
                    \o Attended(rows, ResponseAcceptedDelayed, us, bad)
        initiator == GetUser(us, session.initiatorID, bad)
    IN (IF initiator.id = 0 \/ ~initiator.isHidden
        THEN <<Msg(session.initiatorID, "completed", session.id, names)>>
        ELSE <<>>)
       \o NotifyCompleted(rows, session, names, {session.initiatorID}, us, bad)

-----------------------------------------------------------------------------
(* SmokeService.GetSessionRespondents(sessionID): the users who accepted,  *)
(* 0 standing for a nil user (a response whose user has no row)            *)

RECURSIVE Respondents(_, _, _, _)
Respondents(rows, seen, us, bad) ==
    IF rows = <<>> THEN <<>>
    ELSE LET resp == Head(rows) IN
         IF resp.response \in AcceptedKinds /\ resp.userID \notin seen
         THEN IF resp.userID \in bad
              THEN Respondents(Tail(rows), seen, us, bad)
              ELSE <<GetUser(us, resp.userID, bad).id>>
                      \o Respondents(Tail(rows), seen \cup {resp.userID}, us, bad)
         ELSE Respondents(Tail(rows), seen, us, bad)

GetSessionRespondents(sid, us, rs, bad) == Respondents(GetResponses(rs, sid), {}, us, bad)

\* the cancellation notices of handleCancel: everybody on the list but the canceller
RECURSIVE CancelNotices(_, _, _)
CancelNotices(list, from, sid) ==
    IF list = <<>> \/ Head(list) = 0 THEN <<>>
    ELSE (IF Head(list) # from THEN <<Msg(Head(list), "cancelled", sid, <<>>)>> ELSE <<>>)
         \o CancelNotices(Tail(list), from, sid)

HasNil(list) == \E i \in 1..Len(list) : list[i] = 0

-----------------------------------------------------------------------------
(* Direct callers of the service API, any number of calls in flight *)

InFlight(labels) == Cardinality({q \in Procs : pc[q] \in labels})

Call(p, label, args) ==
    /\ At(p, "idle")
    /\ Goto(p, label)
    /\ loc' = [loc EXCEPT ![p] = args]
    /\ UNCHANGED <<now, nsec, users, sessions, responses, sent, announced, lastKind, crashed>>

\* the caller has looked at the result
Returned(p) ==
    /\ At(p, "returned")
    /\ Goto(p, "idle")
    /\ loc' = [loc EXCEPT ![p] = Locals]
    /\ UNCHANGED <<now, nsec, users, sessions, responses, sent, announced, lastKind, crashed>>

CallStartSession(p) ==
    /\ Len(sessions) + InFlight({"StartSession", "StartSession_Create"}) < MaxSessions
    /\ \E u \in Initiators :
         Call(p, "StartSession", [Locals EXCEPT !.act = "StartSession", !.uid = u])

CallRespondToSession(p) ==
    \E sid \in SessionIds, u \in UserIds, k \in ResponseTypes :
        /\ \/ RowsOf(responses, sid, u) # {}
           \/ Cardinality(responses)
                + InFlight({"RespondToSession", "RespondToSession_SetRemote",
                            "RespondToSession_Add"}) < MaxResponses
        /\ Call(p, "RespondToSession",
             [Locals EXCEPT !.act = "RespondToSession", !.sid = sid, !.uid = u, !.kind = k])

\* from: the participant on whose behalf the caller cancels (CancelSession is not told)
CallCancelSession(p) ==
    \E sid \in SessionIds, u \in {1, 2} :
        Call(p, "CancelSession",
             [Locals EXCEPT !.act = "CancelSession", !.sid = sid, !.from = u])

CallCompleteSession(p) ==
    \E sid \in SessionIds :
        Call(p, "CompleteSession", [Locals EXCEPT !.act = "CompleteSession", !.sid = sid])

CallAutoCompleteOldSessions(p) ==
    Call(p, "AutoCompleteOldSessions", [Locals EXCEPT !.act = "AutoCompleteOldSessions"])

CallRegisterUser(p) ==
    \E u \in UserIds : \E username \in TgUsernames(u) :
        Call(p, "RegisterUser",
             [Locals EXCEPT !.act = "RegisterUser", !.uid = u, !.uname = username,
                            !.from = u])

\* from: the participant the call is about
CallSetRemoteStatus(p) ==
    \E u \in UserIds :
        Call(p, "SetRemoteStatus_Update",
             [Locals EXCEPT !.act = "SetRemoteStatus", !.uid = u, !.from = u])

CallClearRemoteStatus(p) ==
    \E u \in UserIds :
        Call(p, "ClearRemoteStatus",
             [Locals EXCEPT !.act = "ClearRemoteStatus", !.uid = u, !.from = u])

\* from: the initiator the list leaves out
CallGetActiveUsers(p) ==
    \E u \in Initiators :
        Call(p, "GetActiveUsers",
             [Locals EXCEPT !.act = "GetActiveUsers", !.uid = u, !.from = u])

ServiceStep(p) ==
    \/ StartSession(p)
    \/ StartSession_Create(p)
    \/ RespondToSession(p)
    \/ RespondToSession_SetRemote(p)
    \/ RespondToSession_Add(p)
    \/ CancelSession(p)
    \/ CancelSession_Update(p)
    \/ CompleteSession(p)
    \/ AutoCompleteOldSessions(p)
    \/ AutoCompleteOldSessions_Complete(p)

\* the store as a previous run left it: everybody but the last participant registered
InitSvc ==
    /\ now = SvcFirstNow
    /\ nsec = 0
    /\ users = [u \in UserIds |->
                  IF u = MaxUser THEN NoUser ELSE NewUser(u, "user" \o ToString(u))]
    /\ sessions = <<>>
    /\ responses = {}
    /\ pc = [p \in Procs |-> IF p \in Callers THEN "idle" ELSE "off"]
    /\ loc = [p \in Procs |-> Locals]
    /\ sent = [p \in Procs |-> <<>>]
    /\ announced = [s \in SessionIds |-> <<>>]
    /\ lastKind = NoResponses
    /\ crashed = FALSE

SessionStep(p) ==
    \/ StartSession(p)
    \/ StartSession_Create(p)
    \/ CancelSession(p)
    \/ CancelSession_Update(p)
    \/ CompleteSession(p)
    \/ AutoCompleteOldSessions(p)
    \/ AutoCompleteOldSessions_Complete(p)

NextStart ==
    \/ \E p \in Callers : CallStartSession(p)
    \/ \E p \in Callers : CallCancelSession(p)
    \/ \E p \in Callers : CallCompleteSession(p)
    \/ \E p \in Callers : CallAutoCompleteOldSessions(p)
    \/ \E p \in Callers : SessionStep(p)
    \/ \E p \in Callers : Returned(p)
    \/ Tick(SvcFirstNow + MaxTicks)

SpecStart == InitSvc /\ [][NextStart]_vars

(* Callers that respond to an open session, and close it, concurrently *)

RespondStep(p) ==
    \/ RespondToSession(p)
    \/ RespondToSession_SetRemote(p)
    \/ RespondToSession_Add(p)
    \/ CancelSession(p)
    \/ CancelSession_Update(p)
    \/ CompleteSession(p)

InitRespond ==
    /\ now = SvcFirstNow + 1
    /\ nsec = 0
    /\ users = [u \in UserIds |->
                  IF u = MaxUser THEN NoUser ELSE NewUser(u, "user" \o ToString(u))]
    /\ sessions = SessionCreate(<<>>, 1, SessionStatusActive, SvcFirstNow + 1)
    /\ responses = {}
    /\ pc = [p \in Procs |-> IF p \in Callers THEN "idle" ELSE "off"]
    /\ loc = [p \in Procs |-> Locals]
    /\ sent = [p \in Procs |-> <<>>]
    /\ announced = [s \in SessionIds |-> <<>>]
    /\ lastKind = NoResponses
    /\ crashed = FALSE

NextRespond ==
    \/ CallRespondToSession("c1")
    \/ CallCancelSession("c1")
    \/ CallCompleteSession("c1")
    \/ RespondStep("c1")
    \/ Returned("c1")
    \/ Tick(SvcFirstNow + MaxTicks)

SpecRespond == InitRespond /\ [][NextRespond]_vars

(* Callers that respond to an open session concurrently *)

NextRace ==
    \/ \E p \in Callers : CallRespondToSession(p)
    \/ \E p \in Callers : RespondToSession(p)
    \/ \E p \in Callers : RespondToSession_SetRemote(p)
    \/ \E p \in Callers : RespondToSession_Add(p)
    \/ \E p \in Callers : Returned(p)

SpecRace == InitRespond /\ [][NextRace]_vars

-----------------------------------------------------------------------------
(* The update loop: Bot.handleMessage and Bot.handleCallbackQuery.  Every   *)
(* update first registers its sender (Bot.registerUser), whose error is     *)
(* only logged.                                                             *)

Quiet == UNCHANGED <<now, nsec, users, sessions, responses, lastKind>>

Update(u, l, ret) ==
    /\ At("fg", "idle")
    /\ \E username \in TgUsernames(u) :
         loc' = [loc EXCEPT !["fg"] =
                    [l EXCEPT !.from = u, !.uid = u, !.uname = username, !.ret = ret]]
    /\ Goto("fg", "RegisterUser")
    /\ UNCHANGED <<now, nsec, users, sessions, responses, sent, announced, lastKind, crashed>>

\* "/smoke", or the keyboard button
SmokeCommand ==
    /\ Len(sessions) < MaxSessions
    /\ \E u \in Initiators : Update(u, [Locals EXCEPT !.act = "smoke"], "handleSmoke")

\* "/cancel"
CancelCommand ==
    \E u \in UserIds : Update(u, [Locals EXCEPT !.act = "cancel"], "handleCancel")

\* the button "cancel:<sid>"
CancelCallback ==
    \E u \in UserIds, sid \in SessionIds :
        Update(u, [Locals EXCEPT !.act = "cancel", !.hsid = sid], "handleCallbackQuery_Cancel")

ActionKind(action) ==
    CASE action = "accept" -> ResponseAccepted
      [] action = "delayed" -> ResponseAcceptedDelayed
      [] action = "deny" -> ResponseDenied
      [] action = "remote" -> ResponseRemote

Actions == {"accept", "delayed", "deny", "remote"}

\* the buttons "accept:<sid>", "delayed:<sid>", "deny:<sid>", "remote:<sid>"
ResponseCallback ==
    \E u \in UserIds, sid \in SessionIds, action \in Actions :
        /\ RowsOf(responses, sid, u) # {} \/ Cardinality(responses) < MaxResponses
        /\ Update(u, [Locals EXCEPT !.act = action, !.hsid = sid], "handleCallbackQuery")

-----------------------------------------------------------------------------
(* Bot.handleSmoke *)

handleSmoke ==
    /\ At("fg", "handleSmoke")
    /\ IF ~IsWorkingHours(now)
       THEN Done("fg", <<Msg(loc["fg"].from, "not working hours", 0, <<>>)>>)
       ELSE Invoke("fg", "StartSession", "handleSmoke_Started",
                   [loc["fg"] EXCEPT !.uid = loc["fg"].from])
    /\ Quiet /\ UNCHANGED announced

handleSmoke_Started ==
    /\ At("fg", "handleSmoke_Started")
    /\ LET l == loc["fg"]
           initiator == UserGetByID(users, l.from)
       IN IF l.res # Ok
          THEN Done("fg", <<Msg(l.from, IF l.res = ErrAlreadyActive
                                        THEN "already active" ELSE "failed", 0, <<>>)>>)
          ELSE \/ Done("fg", <<>>)                 \* GetUser fails: logged, return
               \/ IF initiator.id = 0
                  THEN Panic("fg", <<>>)           \* initiator.Username of a nil user
                  ELSE Invoke("fg", "GetActiveUsers", "handleSmoke_Users",
                              [l EXCEPT !.hsess = l.sess, !.name = DisplayName(initiator),
                                        !.uid = l.from])
    /\ Quiet /\ UNCHANGED announced

\* the confirmation to the initiator, then one invitation per active user
RECURSIVE Invitations(_, _, _)
Invitations(ids, sid, initiatorName) ==
    IF ids = {} THEN <<>>
    ELSE LET id == CHOOSE i \in ids : \A j \in ids : i <= j
         IN <<Msg(id, "invitation", sid, <<initiatorName>>)>>
               \o Invitations(ids \ {id}, sid, initiatorName)

handleSmoke_Users ==
    /\ At("fg", "handleSmoke_Users")
    /\ LET l == loc["fg"] IN
         IF l.res # Ok THEN Done("fg", <<>>)
         ELSE IF l.list = {}
         THEN Invoke("fg", "CancelSession", "handleSmoke_Cancelled",
                     [l EXCEPT !.sid = l.hsess.id])
         ELSE Done("fg", <<Msg(l.from, "started", l.hsess.id, <<>>)>>
                            \o Invitations(l.list, l.hsess.id, l.name))
    /\ Quiet /\ UNCHANGED announced

handleSmoke_Cancelled ==
    /\ At("fg", "handleSmoke_Cancelled")
    /\ Done("fg", <<Msg(loc["fg"].from, "nobody", loc["fg"].hsess.id, <<>>)>>)
    /\ Quiet /\ UNCHANGED announced

-----------------------------------------------------------------------------
(* Bot.handleCancel, and the "cancel" branch of Bot.handleCallbackQuery *)

\* both entries: look up the active session, check the initiator, collect the
\* respondents, cancel
CancelEntry(callback, done) ==
    LET l == loc["fg"] IN
    \/ Done("fg", <<Msg(l.from, "no active session", 0, <<>>)>>)   \* GetActiveSession fails
    \/ \E session \in GetActiveSession(sessions) :
         IF session.id = 0 \/ (callback /\ session.id # l.hsid)
         THEN Done("fg", <<Msg(l.from, "no active session", 0, <<>>)>>)
         ELSE IF session.initiatorID # l.from
         THEN Done("fg", <<Msg(l.from, "only the initiator", session.id, <<>>)>>)
         ELSE \E bad \in SUBSET UserIds, rsErr \in BOOLEAN :
                Invoke("fg", "CancelSession", done,
                       [l EXCEPT !.hsess = session, !.sid = session.id,
                                 !.rlist = IF rsErr THEN <<>>
                                           ELSE GetSessionRespondents(session.id, users,
                                                                      responses, bad)])

\* after CancelSession: the confirmation, then the notices
CancelExit ==
    LET l == loc["fg"]
        msgs == <<Msg(l.from, "cancel confirmed", l.hsess.id, <<>>)>>
                   \o CancelNotices(l.rlist, l.from, l.hsess.id)
    IN IF l.res # Ok
       THEN Done("fg", <<Msg(l.from, "cancel failed", l.hsess.id, <<>>)>>)
            /\ UNCHANGED announced
       ELSE /\ IF HasNil(l.rlist) THEN Panic("fg", msgs) ELSE Done("fg", msgs)
            /\ Announce(l.hsess.id, "cancelled", msgs)

handleCancel ==
    /\ At("fg", "handleCancel")
    /\ CancelEntry(FALSE, "handleCancel_Cancelled")
    /\ Quiet /\ UNCHANGED announced

handleCancel_Cancelled ==
    /\ At("fg", "handleCancel_Cancelled")
    /\ CancelExit
    /\ Quiet

handleCallbackQuery_Cancel ==
    /\ At("fg", "handleCallbackQuery_Cancel")
    /\ CancelEntry(TRUE, "handleCallbackQuery_Cancelled")
    /\ Quiet /\ UNCHANGED announced

handleCallbackQuery_Cancelled ==
    /\ At("fg", "handleCallbackQuery_Cancelled")
    /\ CancelExit
    /\ Quiet

-----------------------------------------------------------------------------
(* Bot.handleCallbackQuery: a response *)

\* respondentName: "@username" of the stored user, else the Telegram first name
RespondentName(us, id, bad) ==
    LET respondent == GetUser(us, id, bad) IN
    IF respondent.id # 0 /\ respondent.username # ""
    THEN "@" \o respondent.username ELSE TgFirstName(id)

\* (mutant) the id of the callback is not compared with the active session's
handleCallbackQuery_AnySession ==
    /\ At("fg", "handleCallbackQuery")
    /\ LET l == loc["fg"] IN
       \/ Done("fg", <<Msg(l.from, "no longer active", l.hsid, <<>>)>>)
       \/ \E session \in GetActiveSession(sessions) :
            IF session.id = 0
            THEN Done("fg", <<Msg(l.from, "no longer active", l.hsid, <<>>)>>)
            ELSE \E bad \in SUBSET {l.from} :
                   Invoke("fg", "RespondToSession", "handleCallbackQuery_Recorded",
                          [l EXCEPT !.hsess = session, !.sid = l.hsid, !.uid = l.from,
                                    !.kind = ActionKind(l.act),
                                    !.name = RespondentName(users, l.from, bad)])
    /\ Quiet /\ UNCHANGED announced

handleCallbackQuery ==
    /\ At("fg", "handleCallbackQuery")
    /\ LET l == loc["fg"] IN
       \/ Done("fg", <<Msg(l.from, "no longer active", l.hsid, <<>>)>>)  \* GetActiveSession fails
       \/ \E session \in GetActiveSession(sessions) :
            IF session.id = 0 \/ session.id # l.hsid
            THEN Done("fg", <<Msg(l.from, "no longer active", l.hsid, <<>>)>>)
            ELSE \E bad \in SUBSET {l.from} :
                   Invoke("fg", "RespondToSession", "handleCallbackQuery_Recorded",
                          [l EXCEPT !.hsess = session, !.sid = l.hsid, !.uid = l.from,
                                    !.kind = ActionKind(l.act),
                                    !.name = RespondentName(users, l.from, bad)])
    /\ Quiet /\ UNCHANGED announced

handleCallbackQuery_Recorded ==
    /\ At("fg", "handleCallbackQuery_Recorded")
    /\ LET l == loc["fg"] IN
         IF l.res # Ok
         THEN Done("fg", <<Msg(l.from, "not recorded", l.hsid, <<>>)>>)
         ELSE \E bad \in SUBSET UserIds, rsErr \in BOOLEAN :
                Done("fg", <<Msg(l.from, "recorded", l.hsid, <<>>)>>
                              \o notifyParticipants(l.hsess, l.from, l.name,
                                                    ActionKind(l.act), users, responses,
                                                    bad, rsErr))
    /\ Quiet /\ UNCHANGED announced

-----------------------------------------------------------------------------
(* SmokeService.GetSessionSummary(sessionID), and Bot.handleStatus *)

\* (mutant) the loop without its "Skip hidden users"
RECURSIVE SummaryGroup_WithHidden(_, _, _, _)
SummaryGroup_WithHidden(rows, kind, us, bad) ==
    IF rows = <<>> THEN <<>>
    ELSE LET resp == Head(rows)
             user == GetUser(us, resp.userID, bad)
             rest == SummaryGroup_WithHidden(Tail(rows), kind, us, bad)
         IN IF resp.userID \in bad \/ resp.response # kind THEN rest
            ELSE <<DisplayName(user)>> \o rest

\* the names the loop appends to one of accepted, acceptedDelayed, denied: a response
\* whose user lookup fails (bad) or whose user is hidden is skipped
RECURSIVE SummaryGroup(_, _, _, _)
SummaryGroup(rows, kind, us, bad) ==
    IF rows = <<>> THEN <<>>
    ELSE LET resp == Head(rows)
             user == GetUser(us, resp.userID, bad)
             rest == SummaryGroup(Tail(rows), kind, us, bad)
         IN IF resp.userID \in bad \/ user.isHidden \/ resp.response # kind THEN rest
            ELSE <<DisplayName(user)>> \o rest

SummaryKinds == <<ResponseAccepted, ResponseAcceptedDelayed, ResponseDenied>>

\* accepted, acceptedDelayed, denied
SummaryGroups(rows, us, bad) == [k \in 1..3 |-> SummaryGroup(rows, SummaryKinds[k], us, bad)]

SummarySection(label, names) == IF names = <<>> THEN <<>> ELSE <<label>> \o names

\* (mutant) the text without the final "nobody answered yet" replacement
SummaryText_HeaderOnly(groups) ==
    <<"status header">>
        \o SummarySection("coming now:", groups[1])
        \o SummarySection("coming in 5 minutes:", groups[2])
        \o SummarySection("not coming:", groups[3])

\* the text of the summary, as the sequence of its lines
SummaryText(groups) ==
    IF groups[1] = <<>> /\ groups[2] = <<>> /\ groups[3] = <<>>
    THEN <<"nobody answered yet">>
    ELSE <<"status header">>
            \o SummarySection("coming now:", groups[1])
            \o SummarySection("coming in 5 minutes:", groups[2])
            \o SummarySection("not coming:", groups[3])

\* "/status"
StatusCommand ==
    \E u \in UserIds : Update(u, [Locals EXCEPT !.act = "status"], "handleStatus")

handleStatus ==
    /\ At("fg", "handleStatus")
    /\ LET l == loc["fg"] IN
       \/ Done("fg", <<Msg(l.from, "status failed", 0, <<>>)>>)     \* a query fails
       \/ \E session \in GetActiveSession(sessions) :
            IF session.id = 0
            THEN Done("fg", <<Msg(l.from, "no session", 0, <<>>)>>)
            ELSE \E bad \in SUBSET UserIds :
                   LET rows == GetResponses(responses, session.id)
                       groups == SummaryGroups(rows, users, bad)
                   IN IF SummaryPanics(rows, users, bad)
                      THEN Panic("fg", <<>>)
                      ELSE /\ Goto("fg", "done")
                           /\ Send("fg", <<Msg(l.from, "status", session.id,
                                               SummaryText(groups))>>)
                           /\ loc' = [loc EXCEPT !["fg"].groups = groups,
                                                 !["fg"].failed = bad,
                                                 !["fg"].hsess = session]
                           /\ UNCHANGED crashed
    /\ Quiet /\ UNCHANGED announced

-----------------------------------------------------------------------------
(* Bot.autoCompleteSessionsRoutine: every tick of its ticker *)

ReaperTick ==
    /\ At("reaper", "idle")
    /\ Invoke("reaper", "AutoCompleteOldSessions", "autoCompleteSessionsRoutine", Locals)
    /\ Quiet /\ UNCHANGED announced

\* (mutant) the goroutine returns on an error instead of waiting for the next tick
autoCompleteSessionsRoutine_Return ==
    /\ At("reaper", "autoCompleteSessionsRoutine")
    /\ LET l == loc["reaper"] IN
         IF l.res # Ok
         THEN Goto("reaper", "off") /\ UNCHANGED <<loc, sent, crashed, announced>>
         ELSE IF l.sess.id = 0
         THEN Done("reaper", <<>>) /\ UNCHANGED announced
         ELSE \/ Done("reaper", <<>>) /\ UNCHANGED announced
              \/ \E bad \in SUBSET UserIds :
                   LET msgs == notifySessionCompleted(l.sess, users, responses, bad) IN
                   IF SummaryPanics(GetResponses(responses, l.sess.id), users, bad)
                   THEN Panic("reaper", <<>>) /\ UNCHANGED announced
                   ELSE Done("reaper", msgs) /\ Announce(l.sess.id, "completed", msgs)
    /\ Quiet

autoCompleteSessionsRoutine ==
    /\ At("reaper", "autoCompleteSessionsRoutine")
    /\ LET l == loc["reaper"] IN
         IF l.res # Ok \/ l.sess.id = 0
         THEN Done("reaper", <<>>) /\ UNCHANGED announced
         ELSE \/ Done("reaper", <<>>) /\ UNCHANGED announced     \* GetSessionResponses fails
              \/ \E bad \in SUBSET UserIds :
                   LET msgs == notifySessionCompleted(l.sess, users, responses, bad) IN
                   IF SummaryPanics(GetResponses(responses, l.sess.id), users, bad)
                   THEN Panic("reaper", <<>>) /\ UNCHANGED announced
                   ELSE Done("reaper", msgs) /\ Announce(l.sess.id, "completed", msgs)
    /\ Quiet

-----------------------------------------------------------------------------
(* Bot.Start, after NewSmokeService has returned: the reaper goroutine is   *)
(* started and the update loop waits for its first update                   *)

Start ==
    /\ At("fg", "Start")
    /\ pc' = [pc EXCEPT !["fg"] = "idle", !["reaper"] = "idle"]
    /\ loc' = [loc EXCEPT !["fg"] = Locals]
    /\ UNCHANGED <<now, nsec, users, sessions, responses, sent, announced, lastKind,
                   crashed>>

-----------------------------------------------------------------------------
(* The bot as wired: one update at a time, the reaper beside it *)

Threads == {"fg", "reaper"}

HandlerStep ==
    \/ handleSmoke
    \/ handleSmoke_Started
    \/ handleSmoke_Users
    \/ handleSmoke_Cancelled
    \/ handleCancel
    \/ handleCancel_Cancelled
    \/ handleCallbackQuery_Cancel
    \/ handleCallbackQuery_Cancelled
    \/ handleCallbackQuery
    \/ handleCallbackQuery_Recorded

Init ==
    /\ now = FirstNow
    /\ nsec = 0
    /\ users = [u \in UserIds |->
                  IF u = MaxUser THEN NoUser ELSE NewUser(u, "user" \o ToString(u))]
    /\ sessions = <<>>
    /\ responses = {}
    /\ pc = [p \in Procs |-> IF p \in Threads THEN "idle" ELSE "off"]
    /\ loc = [p \in Procs |-> Locals]
    /\ sent = [p \in Procs |-> <<>>]
    /\ announced = [s \in SessionIds |-> <<>>]
    /\ lastKind = NoResponses
    /\ crashed = FALSE

Next ==
    \/ SmokeCommand
    \/ CancelCommand
    \/ CancelCallback
    \/ ResponseCallback
    \/ HandlerStep
    \/ ReaperTick
    \/ autoCompleteSessionsRoutine
    \/ \E p \in Threads : ServiceStep(p)
    \/ \E p \in Threads : RegisterUser(p)
    \/ \E p \in Threads : RegisterUser_Update(p)
    \/ \E p \in Threads : RegisterUser_Create(p)
    \/ \E p \in Threads : GetActiveUsers(p)
    \/ \E p \in Threads : GetActiveUsers_All(p)
    \/ \E p \in Threads : Finish(p)
    \/ Tick(FirstNow + MaxTicks)

Spec == Init /\ [][Next]_vars

-----------------------------------------------------------------------------
(* The bot with a session open: participant 1 has started it, participant 2 *)
(* has accepted.  The initiator or anybody else asks to cancel it while the *)
(* reaper ticks.                                                           *)

InitClose ==
    /\ now = FirstNow
    /\ nsec = 0
    /\ users = [u \in UserIds |->
                  IF u = MaxUser THEN NoUser ELSE NewUser(u, "user" \o ToString(u))]
    /\ sessions = SessionCreate(<<>>, 1, SessionStatusActive, FirstNow)
    /\ responses = AddResponse({}, 1, 2, ResponseAccepted, FirstNow)
    /\ pc = [p \in Procs |-> IF p \in Threads THEN "idle" ELSE "off"]
    /\ loc = [p \in Procs |-> Locals]
    /\ sent = [p \in Procs |-> <<>>]
    /\ announced = [s \in SessionIds |-> <<>>]
    /\ lastKind = [NoResponses EXCEPT ![<<1, 2>>] = ResponseAccepted]
    /\ crashed = FALSE

NextClose ==
    \/ CancelCommand
    \/ CancelCallback
    \/ handleCancel
    \/ handleCancel_Cancelled
    \/ handleCallbackQuery_Cancel
    \/ handleCallbackQuery_Cancelled
    \/ ReaperTick
    \/ autoCompleteSessionsRoutine
    \/ \E p \in Threads : CancelSession(p)
    \/ \E p \in Threads : CancelSession_Update(p)
    \/ \E p \in Threads : AutoCompleteOldSessions(p)
    \/ \E p \in Threads : AutoCompleteOldSessions_Complete(p)
    \/ \E p \in Threads : RegisterUser(p)
    \/ \E p \in Threads : RegisterUser_Update(p)
    \/ \E p \in Threads : RegisterUser_Create(p)
    \/ \E p \in Threads : Finish(p)
    \/ Tick(FirstNow + MaxTicks)

SpecClose == InitClose /\ [][NextClose]_vars

-----------------------------------------------------------------------------
(* Properties of the session coordinator *)

Terminal == {SessionStatusCompleted, SessionStatusCancelled}

IsTerminal(id) == id \in 1..Len(sessions) /\ sessions[id].status \in Terminal

\* the call of thread p takes a step out of label
Leaves(p, label) == pc[p] = label /\ pc'[p] # label

\* the store refused the statement of this step
StoreFailed(p) == pc'[p] = loc[p].ret /\ loc'[p].res = ErrStore

\* C1: whatever the interleaving of concurrent StartSession calls, there is never more
\* than one session in status active
C1_AtMostOneActive == Cardinality(ActiveSessions(sessions)) <= 1

\* C2: the read of StartSession, when a session is active, ends the call with
\* ErrAlreadyActive and changes no session; when none is active the call goes on to
\* create, and the create appends exactly one session, active, initiated by the caller,
\* with no completion time, and returns it (a statement the store refuses aside)
C2_StartSession ==
    [][\A p \in Callers :
         /\ Leaves(p, "StartSession") =>
              /\ sessions' = sessions
              /\ ~StoreFailed(p) =>
                   IF ActiveSessions(sessions) # {}
                   THEN pc'[p] = "returned" /\ loc'[p].res = ErrAlreadyActive
                   ELSE pc'[p] = "StartSession_Create"
         /\ Leaves(p, "StartSession_Create") =>
              /\ pc'[p] = "returned"
              /\ IF StoreFailed(p)
                 THEN sessions' = sessions
                 ELSE /\ loc'[p].res = Ok
                      /\ Len(sessions') = Len(sessions) + 1
                      /\ SubSeq(sessions', 1, Len(sessions)) = sessions
                      /\ sessions'[Len(sessions')] = loc'[p].sess
                      /\ loc'[p].sess.status = SessionStatusActive
                      /\ loc'[p].sess.initiatorID = loc[p].uid
                      /\ loc'[p].sess.completedAt = Null
    ]_vars

\* a StartSession call has been refused while another session of the table is active
C2_Witness ==
    \E p \in Callers :
        /\ pc[p] = "returned" /\ loc[p].act = "StartSession"
        /\ loc[p].res = ErrAlreadyActive
        /\ \E i \in 1..Len(sessions) :
             /\ sessions[i].status = SessionStatusActive
             /\ sessions[i].completedAt = Null

\* C3: a session whose status is completed or cancelled keeps that status in every step
C3_TerminalIsFinal ==
    [][\A i \in 1..Len(sessions) :
         sessions[i].status \in Terminal => sessions'[i].status = sessions[i].status]_vars

\* C4: CancelSession and CompleteSession of a session that is already completed or
\* cancelled return an error and leave the session as it is
C4_ClosedStaysClosed ==
    [][\A p \in Callers :
         /\ (Leaves(p, "CancelSession") /\ IsTerminal(loc[p].sid)) =>
              (pc'[p] = "returned" /\ loc'[p].res # Ok /\ sessions' = sessions)
         /\ (Leaves(p, "CompleteSession") /\ IsTerminal(loc[p].sid)) =>
              (pc'[p] = "returned" /\ loc'[p].res # Ok /\ sessions' = sessions)
    ]_vars

\* C5: a session is announced closed at most once, as cancelled or as completed
C5_OneAnnouncement == \A s \in SessionIds : Len(announced[s]) <= 1

\* C10: CancelSession asked for by somebody other than the initiator of the session
\* fails and leaves the sessions as they are
C10_OnlyInitiatorCancels ==
    [][\A p \in Callers :
         (Leaves(p, "CancelSession_Update") /\ loc[p].from # loc[p].sess.initiatorID) =>
             (loc'[p].res # Ok /\ sessions' = sessions)
    ]_vars

-----------------------------------------------------------------------------
(* Properties of RespondToSession *)

Responding == {"RespondToSession", "RespondToSession_SetRemote", "RespondToSession_Add"}

\* the rows without their timestamps
Kinds(rs) ==
    {[id |-> r.id, sessionID |-> r.sessionID, userID |-> r.userID, response |-> r.response]
       : r \in rs}

Statuses(ss) == [i \in 1..Len(ss) |-> ss[i].status]

Flags(us) == [u \in UserIds |-> <<us[u].isRemoteToday, us[u].isHidden>>]

\* C6: a session and a participant have at most one response row between them, and its
\* kind is the kind of the response applied last, however the calls interleave
C6_OneRowPerPair ==
    \A sid \in SessionIds, u \in UserIds :
        LET rows == {r \in responses : r.sessionID = sid /\ r.userID = u} IN
        /\ Cardinality(rows) <= 1
        /\ \A r \in rows : r.response = lastKind[<<sid, u>>]
        /\ rows = {} <=> lastKind[<<sid, u>>] = ""

\* two calls have answered for the same participant with different kinds: one inserted
\* the row, the other replaced its kind
C6_Witness ==
    \E p \in Callers, q \in Callers :
        /\ pc[p] = "returned" /\ loc[p].act = "RespondToSession" /\ loc[p].res = Ok
        /\ pc[q] = "returned" /\ loc[q].act = "RespondToSession" /\ loc[q].res = Ok
        /\ loc[p].prior = ""
        /\ loc[q].prior = loc[p].kind /\ loc[q].kind # loc[p].kind
        /\ Cardinality(responses) = 1
        /\ \A r \in responses : r.response = loc[q].kind

\* the state the first application of (sid, uid, kind) leaves: the row is there with
\* that kind and, for remote, the participant is marked remote
Applied(p) ==
    /\ \E r \in responses :
         r.sessionID = loc[p].sid /\ r.userID = loc[p].uid /\ r.response = loc[p].kind
    /\ loc[p].kind = ResponseRemote =>
         (users[loc[p].uid].id = 0 \/ users[loc[p].uid].isRemoteToday)

C8_Rejected ==
    [][\A p \in Callers :
         Leaves(p, "RespondToSession") =>
            /\ responses' = responses /\ users' = users /\ sessions' = sessions
            /\ loc[p].sid \notin 1..Len(sessions) =>
                 (pc'[p] = "returned" /\ loc'[p].res \in {ErrNotFound, ErrStore})
            /\ IsTerminal(loc[p].sid) =>
                 (pc'[p] = "returned" /\ loc'[p].res \in {ErrNotActive, ErrStore})
    ]_vars

\* a remote response to a closed session has been refused, nobody is remote, no row
C8_Witness ==
    \E p \in Callers :
        /\ pc[p] = "returned" /\ loc[p].act = "RespondToSession"
        /\ loc[p].res = ErrNotActive /\ loc[p].kind = ResponseRemote
        /\ \A u \in UserIds : ~users[u].isRemoteToday
        /\ responses = {}
        /\ \E i \in 1..Len(sessions) : sessions[i].status \in Terminal

\* the last clock unit of the day of t
LastOfDay(t, until) ==
    /\ until >= t
    /\ until \div UnitsPerDay = t \div UnitsPerDay
    /\ (until + 1) % UnitsPerDay = 0

\* C9: a remote response of a registered participant first marks the participant remote
\* until the end of the current day, then writes the row of kind remote; a response of
\* another kind leaves every participant's remote status as it is
C9_RemoteResponse ==
    [][\A p \in Callers :
         /\ (Leaves(p, "RespondToSession_SetRemote") /\ ~StoreFailed(p)) =>
              /\ pc'[p] = "RespondToSession_Add"
              /\ responses' = responses
              /\ \A v \in UserIds \ {loc[p].uid} : users'[v] = users[v]
              /\ users[loc[p].uid].id # 0 =>
                   /\ users'[loc[p].uid].isRemoteToday
                   /\ LastOfDay(now, users'[loc[p].uid].remoteUntil)
         /\ (Leaves(p, "RespondToSession_Add") /\ ~StoreFailed(p)) =>
              /\ loc'[p].res = Ok
              /\ users' = users
              /\ \E r \in responses' :
                   /\ r.sessionID = loc[p].sid /\ r.userID = loc[p].uid
                   /\ r.response = loc[p].kind
              /\ (loc[p].kind = ResponseRemote /\ users[loc[p].uid].id # 0) =>
                   /\ users[loc[p].uid].isRemoteToday
                   /\ users[loc[p].uid].remoteUntil # Null
         /\ (pc[p] \in Responding /\ loc[p].kind # ResponseRemote) => users' = users
    ]_vars

\* a remote response has succeeded: the participant is remote until the end of the day
\* and holds a row of kind remote
C9_Witness ==
    \E p \in Callers, u \in UserIds :
        /\ pc[p] = "returned" /\ loc[p].act = "RespondToSession" /\ loc[p].res = Ok
        /\ loc[p].kind = ResponseRemote
        /\ users[u].id # 0 /\ users[u].isRemoteToday /\ LastOfDay(now, users[u].remoteUntil)
        /\ \E r \in responses : r.userID = u /\ r.response = ResponseRemote
        /\ Cardinality(responses) = 1

-----------------------------------------------------------------------------
(* Properties of the session rows *)

\* C11: in every state a session has a completion time exactly when its status is
\* completed or cancelled; an active session has none
C11_CompletedAtIffClosed ==
    \A i \in 1..Len(sessions) :
        /\ sessions[i].status \in SessionStatuses
        /\ sessions[i].completedAt # Null <=> sessions[i].status \in Terminal
        /\ sessions[i].status = SessionStatusActive => sessions[i].completedAt = Null

\* one session has been cancelled and another completed, each stamped, by calls that
\* returned success, while the clock moved on
C11_Witness ==
    /\ \E i \in 1..Len(sessions) :
         sessions[i].status = SessionStatusCancelled /\ sessions[i].completedAt # Null
    /\ \E i \in 1..Len(sessions) :
         sessions[i].status = SessionStatusCompleted /\ sessions[i].completedAt = now
    /\ \E p \in Callers :
         /\ pc[p] = "returned" /\ loc[p].res = Ok
         /\ loc[p].act \in {"CompleteSession", "AutoCompleteOldSessions"}

-----------------------------------------------------------------------------
(* AutoCompleteOldSessions called again and again by one thread, as the     *)
(* ticker of the reaper does, while another thread starts and cancels       *)
(* sessions.                                                                *)

NextReap ==
    \/ CallAutoCompleteOldSessions("c1")
    \/ AutoCompleteOldSessions("c1")
    \/ AutoCompleteOldSessions_Complete("c1")
    \/ CallStartSession("c2")
    \/ StartSession("c2")
    \/ StartSession_Create("c2")
    \/ CallCancelSession("c2")
    \/ CancelSession("c2")
    \/ CancelSession_Update("c2")
    \/ \E p \in Callers : Returned(p)
    \/ Tick(SvcFirstNow + MaxTicks)

SpecReap == InitSvc /\ [][NextReap]_vars

\* the sessions ss with session id completed at t
CompletedAt(ss, id, t) ==
    [i \in 1..Len(ss) |->
        IF i = id THEN [ss[i] EXCEPT !.status = SessionStatusCompleted, !.completedAt = t]
        ELSE ss[i]]

\* C12: AutoCompleteOldSessions returns nothing and changes nothing when no session is
\* active or the active one is no older than the threshold; when it is older the call
\* completes it and returns it; a session that is not active never becomes active again,
\* so later calls find nothing to complete
C12_AutoComplete ==
    [][/\ \A p \in Callers :
            /\ Leaves(p, "AutoCompleteOldSessions") =>
                 /\ sessions' = sessions
                 /\ ~StoreFailed(p) =>
                      IF \E i \in ActiveSessions(sessions) :
                             now - sessions[i].createdAt > AutoCompleteAge
                      THEN /\ pc'[p] = "AutoCompleteOldSessions_Complete"
                           /\ loc'[p].sess.status = SessionStatusActive
                           /\ now - loc'[p].sess.createdAt > AutoCompleteAge
                           /\ loc'[p].sid = loc'[p].sess.id
                      ELSE /\ pc'[p] = "returned"
                           /\ loc'[p].res = Ok /\ loc'[p].sess = NoSession
            /\ Leaves(p, "AutoCompleteOldSessions_Complete") =>
                 /\ pc'[p] = "returned"
                 /\ IF StoreFailed(p)
                    THEN sessions' = sessions /\ loc'[p].sess = NoSession
                    ELSE /\ loc'[p].res = Ok
                         /\ loc'[p].sess.id = loc[p].sid
                         /\ sessions' = CompletedAt(sessions, loc[p].sid, now)
       /\ \A i \in 1..Len(sessions) :
            sessions[i].status # SessionStatusActive
               => sessions'[i].status # SessionStatusActive
    ]_vars

\* a call has found nothing to do after an earlier call completed a stale session
C12_Witness ==
    /\ pc["c1"] = "returned" /\ loc["c1"].act = "AutoCompleteOldSessions"
    /\ loc["c1"].res = Ok /\ loc["c1"].sess = NoSession
    /\ \E i \in 1..Len(sessions) :
         /\ sessions[i].status = SessionStatusCompleted
         /\ sessions[i].completedAt - sessions[i].createdAt > AutoCompleteAge

-----------------------------------------------------------------------------
(* The bot with a session open, started by participant 1: participants      *)
(* answer the invitation and ask to cancel, one update at a time.           *)

InitNotify ==
    /\ now = FirstNow
    /\ nsec = 0
    /\ users = [u \in UserIds |->
                  IF u = MaxUser THEN NoUser ELSE NewUser(u, "user" \o ToString(u))]
    /\ sessions = SessionCreate(<<>>, 1, SessionStatusActive, FirstNow)
    /\ responses = {}
    /\ pc = [p \in Procs |-> IF p = "fg" THEN "idle" ELSE "off"]
    /\ loc = [p \in Procs |-> Locals]
    /\ sent = [p \in Procs |-> <<>>]
    /\ announced = [s \in SessionIds |-> <<>>]
    /\ lastKind = NoResponses
    /\ crashed = FALSE

NextNotify ==
    \/ ResponseCallback
    \/ CancelCommand
    \/ handleCallbackQuery
    \/ handleCallbackQuery_Recorded
    \/ handleCancel
    \/ handleCancel_Cancelled
    \/ RegisterUser("fg")
    \/ RegisterUser_Update("fg")
    \/ RegisterUser_Create("fg")
    \/ RespondToSession("fg")
    \/ RespondToSession_SetRemote("fg")
    \/ RespondToSession_Add("fg")
    \/ CancelSession("fg")
    \/ CancelSession_Update("fg")
    \/ Finish("fg")

SpecNotify == InitNotify /\ [][NextNotify]_vars

\* what the dispatcher sends to others: invitations, response notifications,
\* cancellation notices and completion summaries (the rest answers the sender)
DispatcherKinds == {"invitation", "response", "cancelled", "completed"}

\* C13: no message of the dispatcher goes to a participant who is hidden
C13_HiddenNeverRecipient ==
    \A p \in Procs : \A i \in 1..Len(sent[p]) :
        sent[p][i].kind \in DispatcherKinds => ~users[sent[p][i].to].isHidden

-----------------------------------------------------------------------------
(* The bot with no session open: participants 1 and the last one ask for a  *)
(* session, one update at a time, while the clock runs past the working     *)
(* hours.  Participant 2 is remote for the day, or was remote the day       *)
(* before.                                                                  *)

InitInvite ==
    /\ now = FirstNow
    /\ nsec = 0
    /\ \E until \in {EndOfDay(FirstNow), EndOfDay(FirstNow - UnitsPerDay)} :
         users = [u \in UserIds |->
                    IF u = MaxUser THEN NoUser
                    ELSE IF u = 2
                    THEN User(u, "user" \o ToString(u), TgFirstName(u), TRUE, until, FALSE)
                    ELSE NewUser(u, "user" \o ToString(u))]
    /\ sessions = <<>>
    /\ responses = {}
    /\ pc = [p \in Procs |-> IF p = "fg" THEN "idle" ELSE "off"]
    /\ loc = [p \in Procs |-> Locals]
    /\ sent = [p \in Procs |-> <<>>]
    /\ announced = [s \in SessionIds |-> <<>>]
    /\ lastKind = NoResponses
    /\ crashed = FALSE

NextInvite ==
    \/ SmokeCommand
    \/ handleSmoke
    \/ handleSmoke_Started
    \/ handleSmoke_Users
    \/ handleSmoke_Cancelled
    \/ RegisterUser("fg")
    \/ RegisterUser_Update("fg")
    \/ RegisterUser_Create("fg")
    \/ StartSession("fg")
    \/ StartSession_Create("fg")
    \/ GetActiveUsers("fg")
    \/ GetActiveUsers_All("fg")
    \/ CancelSession("fg")
    \/ CancelSession_Update("fg")
    \/ Finish("fg")
    \/ Tick(FirstNow + MaxTicks)

SpecInvite == InitInvite /\ [][NextInvite]_vars

\* the ways the bot writes the name of user u into a message
RenderedNames(u) == {u.username, u.firstName, "@" \o u.username} \ {"", "@"}

\* C14: no message of the dispatcher carries the name of a hidden participant to
\* somebody else
C14_HiddenNeverNamed ==
    \A p \in Procs : \A i \in 1..Len(sent[p]) :
        sent[p][i].kind \in DispatcherKinds =>
            \A u \in UserIds \ {sent[p][i].to} :
                users[u].isHidden =>
                    \A j \in 1..Len(sent[p][i].names) :
                        sent[p][i].names[j] \notin RenderedNames(users[u])

-----------------------------------------------------------------------------
(* The bot with a session open: participants answer the invitation and ask  *)
(* for the status, one update at a time.                                    *)

NextStatus ==
    \/ ResponseCallback
    \/ StatusCommand
    \/ handleCallbackQuery
    \/ handleCallbackQuery_Recorded
    \/ handleStatus
    \/ RegisterUser("fg")
    \/ RegisterUser_Update("fg")
    \/ RegisterUser_Create("fg")
    \/ RespondToSession("fg")
    \/ RespondToSession_SetRemote("fg")
    \/ RespondToSession_Add("fg")
    \/ Finish("fg")

SpecStatus == InitNotify /\ [][NextStatus]_vars

\* the summary handleStatus has just sent, and the session it is about
StatusSent ==
    /\ pc["fg"] = "done" /\ loc["fg"].act = "status" /\ loc["fg"].hsess.id # 0
    /\ \E i \in 1..Len(sent["fg"]) : sent["fg"][i].kind = "status"

\* how often name stands in the list names
Occurrences(names, name) == Cardinality({i \in 1..Len(names) : names[i] = name})

C16_NobodyAnswered ==
    StatusSent =>
        \A i \in 1..Len(sent["fg"]) :
            sent["fg"][i].kind = "status" =>
                /\ {r \in responses : r.sessionID = sent["fg"][i].sid} = {}
                      => sent["fg"][i].names = <<"nobody answered yet">>
                /\ sent["fg"][i].names # <<"status header">>
                /\ sent["fg"][i].names[1] = "status header" => Len(sent["fg"][i].names) >= 3

\* a summary has been sent for the open session, which nobody has answered
C16_Witness ==
    /\ StatusSent
    /\ \E i \in 1..Len(sent["fg"]) :
         /\ sent["fg"][i].kind = "status"
         /\ sent["fg"][i].sid = loc["fg"].hsess.id
         /\ sent["fg"][i].names = <<"nobody answered yet">>
    /\ responses = {}

-----------------------------------------------------------------------------
(* Properties of the invitation list *)

\* user u as the expiry of remote statuses at the clock reading (t, ns) leaves it
Expired(u, t, ns) ==
    IF u.id # 0 /\ u.isRemoteToday /\ u.remoteUntil # Null
       /\ (u.remoteUntil < t \/ (u.remoteUntil = t /\ ns = 1))
    THEN [u EXCEPT !.isRemoteToday = FALSE, !.remoteUntil = Null]
    ELSE u

\* the registered participants other than initiator who are neither remote nor hidden
Eligible(initiator) ==
    {u \in UserIds : /\ users[u].id # 0 /\ u # initiator
                     /\ ~users[u].isRemoteToday /\ ~users[u].isHidden}

\* the participants the messages msgs invite to session sid
Invited(msgs, sid) ==
    {msgs[i].to : i \in {j \in 1..Len(msgs) : msgs[j].kind = "invitation" /\ msgs[j].sid = sid}}

\* C17: GetActiveUsers first clears the remote status of exactly the participants whose
\* remoteUntil has passed, then returns exactly the registered participants who are not
\* the initiator, not remote and not hidden; handleSmoke sends one invitation to each of
\* them and to nobody else
C17_EligibleInvitees ==
    [][/\ (Leaves("fg", "GetActiveUsers") /\ ~StoreFailed("fg")) =>
            /\ pc'["fg"] = "GetActiveUsers_All"
            /\ users' = [u \in UserIds |-> Expired(users[u], now, nsec)]
       /\ (Leaves("fg", "GetActiveUsers_All") /\ ~StoreFailed("fg")) =>
            /\ users' = users
            /\ loc'["fg"].res = Ok
            /\ loc'["fg"].list = Eligible(loc["fg"].from)
       /\ (Leaves("fg", "handleSmoke_Users") /\ loc["fg"].res = Ok) =>
            /\ Invited(sent'["fg"], loc["fg"].hsess.id) = loc["fg"].list
            /\ loc["fg"].list = Eligible(loc["fg"].from)
            /\ \A u \in UserIds :
                 Cardinality({i \in 1..Len(sent'["fg"]) :
                                 sent'["fg"][i].kind = "invitation" /\ sent'["fg"][i].to = u})
                   <= 1
    ]_vars

\* participant 2, whose remote status had run out, has been invited again
C17_Witness ==
    /\ pc["fg"] = "done" /\ loc["fg"].act = "smoke"
    /\ 2 \in Invited(sent["fg"], loc["fg"].hsess.id)
    /\ ~users[2].isRemoteToday /\ users[2].remoteUntil = Null

-----------------------------------------------------------------------------
(* The remote status on its own: one caller sets and clears remote         *)
(* statuses and asks for the invitation list while the day ends.           *)
(* Participant 2 is registered under the reserved name or under its own.   *)

InitRemote ==
    /\ now = SvcFirstNow
    /\ nsec = 0
    /\ \E name \in {ReservedName, "user2"} :
         users = [u \in UserIds |->
                    IF u = MaxUser THEN NoUser
                    ELSE IF u = 2 THEN AutoHide(NewUser(u, name))
                    ELSE NewUser(u, "user" \o ToString(u))]
    /\ sessions = <<>>
    /\ responses = {}
    /\ pc = [p \in Procs |-> IF p = "c1" THEN "idle" ELSE "off"]
    /\ loc = [p \in Procs |-> Locals]
    /\ sent = [p \in Procs |-> <<>>]
    /\ announced = [s \in SessionIds |-> <<>>]
    /\ lastKind = NoResponses
    /\ crashed = FALSE

NextRemote ==
    \/ CallSetRemoteStatus("c1")
    \/ CallClearRemoteStatus("c1")
    \/ CallGetActiveUsers("c1")
    \/ SetRemoteStatus_Update("c1")
    \/ ClearRemoteStatus("c1")
    \/ ClearRemoteStatus_Update("c1")
    \/ GetActiveUsers("c1")
    \/ GetActiveUsers_All("c1")
    \/ Returned("c1")
    \/ Tick(SvcFirstNow + MaxTicks)
    \/ PassLastSecond

SpecRemote == InitRemote /\ [][NextRemote]_vars

-----------------------------------------------------------------------------
(* Properties of the remote status *)

\* the service call of p about a participant has just succeeded
Succeeds(p, label) == Leaves(p, label) /\ pc'[p] = "returned" /\ loc'[p].res = Ok

\* every row but that of u stays as it is
OthersKept(u) == \A v \in UserIds \ {u} : users'[v] = users[v]

\* the row of u keeps its names and its hidden flag
IdentityKept(u) ==
    /\ users'[u].id = users[u].id
    /\ users'[u].username = users[u].username
    /\ users'[u].firstName = users[u].firstName
    /\ users'[u].isHidden = users[u].isHidden

\* the SetRemoteStatus step of c1 marks the participant remote until the last unit of
\* the current day and touches nobody else
SetsRemote ==
    LET u == loc["c1"].uid IN
    Succeeds("c1", "SetRemoteStatus_Update") =>
        /\ OthersKept(u)
        /\ IF users[u].id = 0
           THEN users' = users
           ELSE /\ users'[u].isRemoteToday
                /\ users'[u].remoteUntil \div UnitsPerDay = now \div UnitsPerDay
                /\ (users'[u].remoteUntil + 1) % UnitsPerDay = 0
                /\ IdentityKept(u)

\* C18 (as stated): SetRemoteStatus sets isRemoteToday and remoteUntil = 23:59:59 of the
\* current day, and remoteUntil is never earlier than the moment of the call
C18_NeverEarlier ==
    [][/\ SetsRemote
       /\ (Succeeds("c1", "SetRemoteStatus_Update") /\ users[loc["c1"].uid].id # 0) =>
            ~(\/ users'[loc["c1"].uid].remoteUntil < now
              \/ users'[loc["c1"].uid].remoteUntil = now /\ nsec = 1)
    ]_vars

\* C18 (amended): SetRemoteStatus sets isRemoteToday and remoteUntil = 23:59:59.000 of
\* the current day, never a later day, and changes no other participant; remoteUntil is
\* earlier than the moment of the call only when the call is made after 23:59:59.000
C18_SetRemote ==
    [][/\ SetsRemote
       /\ (Succeeds("c1", "SetRemoteStatus_Update") /\ users[loc["c1"].uid].id # 0) =>
            /\ users'[loc["c1"].uid].remoteUntil >= now
            /\ (users'[loc["c1"].uid].remoteUntil = now /\ nsec = 1)
                 => (now + 1) % UnitsPerDay = 0
            /\ (nsec = 0 \/ (now + 1) % UnitsPerDay # 0) =>
                 ~(\/ users'[loc["c1"].uid].remoteUntil < now
                   \/ users'[loc["c1"].uid].remoteUntil = now /\ nsec = 1)
    ]_vars

\* a participant was marked remote in the last second of the day: the remote status
\* ends at an instant the clock has already passed
C18_Witness ==
    /\ pc["c1"] = "returned" /\ loc["c1"].act = "SetRemoteStatus" /\ loc["c1"].res = Ok
    /\ nsec = 1
    /\ LET u == loc["c1"].from IN
         /\ users[u].id # 0 /\ users[u].isRemoteToday
         /\ users[u].remoteUntil = now

-----------------------------------------------------------------------------
(* The end of a remote day: participant 1 was marked remote earlier in the *)
(* day; one caller marks participants remote and asks for the invitation   *)
(* list while the day ends.  Nobody clears a remote status by hand.        *)

InitExpire ==
    /\ now = SvcFirstNow
    /\ nsec = 0
    /\ users = [u \in UserIds |->
                  IF u = MaxUser THEN NoUser
                  ELSE IF u = 1
                  THEN User(u, "user1", TgFirstName(u), TRUE, EndOfDay(SvcFirstNow), FALSE)
                  ELSE NewUser(u, "user" \o ToString(u))]
    /\ sessions = <<>>
    /\ responses = {}
    /\ pc = [p \in Procs |-> IF p = "c1" THEN "idle" ELSE "off"]
    /\ loc = [p \in Procs |-> Locals]
    /\ sent = [p \in Procs |-> <<>>]
    /\ announced = [s \in SessionIds |-> <<>>]
    /\ lastKind = NoResponses
    /\ crashed = FALSE

NextExpire ==
    \/ CallSetRemoteStatus("c1")
    \/ CallGetActiveUsers("c1")
    \/ SetRemoteStatus_Update("c1")
    \/ GetActiveUsers("c1")
    \/ GetActiveUsers_All("c1")
    \/ Returned("c1")
    \/ Tick(SvcFirstNow + MaxTicks)
    \/ PassLastSecond

SpecExpire == InitExpire /\ [][NextExpire]_vars

\* the remote status of row u ends at an instant the clock has passed
InThePast(u) ==
    /\ u.id # 0 /\ u.isRemoteToday /\ u.remoteUntil # Null
    /\ (u.remoteUntil < now \/ (u.remoteUntil = now /\ nsec = 1))

\* C19: the first statement of GetActiveUsers clears isRemoteToday and remoteUntil of
\* exactly the participants whose remoteUntil is in the past; the list it then returns
\* leaves out every participant still remote and holds every other registered, visible
\* participant but the initiator, so a remote participant stays out until remoteUntil
\* has passed and is back in the first list computed after it
C19_RemoteUntilExpiry ==
    [][/\ (Leaves("c1", "GetActiveUsers") /\ ~StoreFailed("c1")) =>
            \A u \in UserIds :
                IF InThePast(users[u])
                THEN /\ ~users'[u].isRemoteToday /\ users'[u].remoteUntil = Null
                     /\ IdentityKept(u)
                ELSE users'[u] = users[u]
       /\ (Leaves("c1", "GetActiveUsers_All") /\ ~StoreFailed("c1")) =>
            /\ users' = users
            /\ \A u \in UserIds :
                 (users[u].id # 0 /\ u # loc["c1"].from /\ ~users[u].isHidden) =>
                    (u \in loc'["c1"].list <=> ~users[u].isRemoteToday)
       /\ \A u \in UserIds :
            (users[u].id # 0 /\ users[u].isRemoteToday /\ ~users'[u].isRemoteToday) =>
               /\ Leaves("c1", "GetActiveUsers")
               /\ InThePast(users[u])
    ]_vars

\* after midnight the list holds participant 1, whose remote day has ended, and leaves
\* out participant 2, who went remote for the new day
C19_Witness ==
    /\ pc["c1"] = "returned" /\ loc["c1"].act = "GetActiveUsers" /\ loc["c1"].res = Ok
    /\ loc["c1"].from = MaxUser
    /\ now > EndOfDay(SvcFirstNow)
    /\ ~users[1].isRemoteToday /\ users[1].remoteUntil = Null /\ 1 \in loc["c1"].list
    /\ users[2].isRemoteToday /\ users[2].remoteUntil > now /\ 2 \notin loc["c1"].list

-----------------------------------------------------------------------------
(* Back to the office: callers register participants, mark them remote and *)
(* clear remote statuses, their calls overlapping.                         *)

NextOffice ==
    \/ \E p \in Callers : CallRegisterUser(p)
    \/ \E p \in Callers : CallSetRemoteStatus(p)
    \/ \E p \in Callers : CallClearRemoteStatus(p)
    \/ \E p \in Callers : RegisterUser(p)
    \/ \E p \in Callers : RegisterUser_Update(p)
    \/ \E p \in Callers : RegisterUser_Create(p)
    \/ \E p \in Callers : SetRemoteStatus_Update(p)
    \/ \E p \in Callers : ClearRemoteStatus(p)
    \/ \E p \in Callers : ClearRemoteStatus_Update(p)
    \/ \E p \in Callers : Returned(p)

SpecOffice == InitSvc /\ [][NextOffice]_vars

-----------------------------------------------------------------------------
(* Properties of a start request nobody can be invited to *)

\* C21: when GetActiveUsers returns no participant, handleSmoke cancels the session it
\* has just created, sends the "nobody" notice to the initiator and nothing else, and
\* leaves no session active
C21_NobodyAvailable ==
    [][/\ (Leaves("fg", "handleSmoke_Users") /\ loc["fg"].res = Ok /\ loc["fg"].list = {}) =>
            /\ pc'["fg"] = "CancelSession"
            /\ sent' = sent
       /\ Leaves("fg", "handleSmoke_Cancelled") =>
            /\ sent'["fg"] = <<Msg(loc["fg"].from, "nobody", loc["fg"].hsess.id, <<>>)>>
            /\ sessions[loc["fg"].hsess.id].status = SessionStatusCancelled
            /\ \A i \in 1..Len(sessions) : sessions[i].status # SessionStatusActive
    ]_vars

-----------------------------------------------------------------------------
(* Properties of the notifications about a response *)

\* the participants the messages msgs notify of a response
Notified(msgs) ==
    {msgs[i].to : i \in {j \in 1..Len(msgs) : msgs[j].kind = "response"}}

\* no participant is notified of a response twice in msgs
NotifiedOnce(msgs) ==
    \A i, j \in 1..Len(msgs) :
        (msgs[i].kind = "response" /\ msgs[j].kind = "response" /\ msgs[i].to = msgs[j].to)
           => i = j

\* the participants whose response to session sid is accepted or accepted-delayed
Coming(sid) ==
    {r.userID : r \in {x \in responses :
                          /\ x.sessionID = sid
                          /\ x.response \in {ResponseAccepted, ResponseAcceptedDelayed}}}

\* the initiator of the session, unless it is the responder or hidden
InitiatorToTell(session, responder) ==
    IF session.initiatorID # responder /\ ~users[session.initiatorID].isHidden
    THEN {session.initiatorID} ELSE {}

\* the handler has recorded a response of one of the kinds and notifies
Notifies(kinds) ==
    /\ Leaves("fg", "handleCallbackQuery_Recorded")
    /\ loc["fg"].res = Ok
    /\ loc["fg"].kind \in kinds
    /\ ~users[loc["fg"].from].isHidden

\* C22: after a recorded response accepted or accepted-delayed of a visible participant,
\* the notification goes to the initiator (unless responder or hidden) and to every
\* other visible participant whose response is accepted or accepted-delayed, once each,
\* and to nobody else (to nobody when the responses cannot be read)
C22_AcceptedFanOut ==
    [][Notifies({ResponseAccepted, ResponseAcceptedDelayed}) =>
         LET l == loc["fg"]
             expected == InitiatorToTell(l.hsess, l.from)
                            \cup {u \in Coming(l.hsess.id) \ {l.from} : ~users[u].isHidden}
         IN /\ Notified(sent'["fg"]) \subseteq expected
            /\ Notified(sent'["fg"]) \in {expected, {}}
            /\ NotifiedOnce(sent'["fg"])
    ]_vars

-----------------------------------------------------------------------------
(* The bot with a session open that the last participant, registered under *)
(* the reserved name and so hidden, has started: participants, all of them *)
(* registered, answer the invitation, one update at a time.                *)

InitAnswer ==
    /\ now = FirstNow
    /\ nsec = 0
    /\ users = [u \in UserIds |->
                  IF u = MaxUser THEN AutoHide(NewUser(u, ReservedName))
                  ELSE NewUser(u, "user" \o ToString(u))]
    /\ sessions = SessionCreate(<<>>, MaxUser, SessionStatusActive, FirstNow)
    /\ responses = {}
    /\ pc = [p \in Procs |-> IF p = "fg" THEN "idle" ELSE "off"]
    /\ loc = [p \in Procs |-> Locals]
    /\ sent = [p \in Procs |-> <<>>]
    /\ announced = [s \in SessionIds |-> <<>>]
    /\ lastKind = NoResponses
    /\ crashed = FALSE

NextAnswer ==
    \/ ResponseCallback
    \/ handleCallbackQuery
    \/ handleCallbackQuery_Recorded
    \/ RegisterUser("fg")
    \/ RegisterUser_Update("fg")
    \/ RespondToSession("fg")
    \/ RespondToSession_SetRemote("fg")
    \/ RespondToSession_Add("fg")
    \/ Finish("fg")

SpecAnswer == InitAnswer /\ [][NextAnswer]_vars

\* C23: after a recorded response denied or remote of a visible participant, nobody but
\* the initiator is notified, and the initiator only when it is not the responder and
\* not hidden
C23_DeniedFanOut ==
    [][Notifies({ResponseDenied, ResponseRemote}) =>
         /\ Notified(sent'["fg"]) \subseteq InitiatorToTell(loc["fg"].hsess, loc["fg"].from)
         /\ NotifiedOnce(sent'["fg"])
    ]_vars

-----------------------------------------------------------------------------
(* Properties of the cancellation notices *)

\* the participants the messages msgs tell that the session is cancelled
ToldCancelled(msgs) ==
    {msgs[i].to : i \in {j \in 1..Len(msgs) : msgs[j].kind = "cancelled"}}

\* the participants who have a response of any kind to session sid
Responded(sid) == {r.userID : r \in {x \in responses : x.sessionID = sid}}

\* C24: when the initiator has cancelled the session, the cancellation notice goes to
\* every participant who has a response of any kind to it, the canceller excepted, and
\* to nobody else
C24_CancelFanOut ==
    [][\A label \in {"handleCancel_Cancelled", "handleCallbackQuery_Cancelled"} :
         (Leaves("fg", label) /\ loc["fg"].res = Ok) =>
            ToldCancelled(sent'["fg"]) = Responded(loc["fg"].hsess.id) \ {loc["fg"].from}
    ]_vars

-----------------------------------------------------------------------------
(* Properties of the reaper *)

\* the participants the messages msgs send the final summary of session sid
ToldCompleted(msgs, sid) ==
    {msgs[i].to : i \in {j \in 1..Len(msgs) : msgs[j].kind = "completed" /\ msgs[j].sid = sid}}

\* the reaper is handed a session AutoCompleteOldSessions has just completed
AutoCompleted ==
    /\ Leaves("reaper", "autoCompleteSessionsRoutine")
    /\ loc["reaper"].res = Ok
    /\ loc["reaper"].sess.id # 0

\* C25: when the reaper has auto-completed a session, the final summary goes to the
\* initiator and to every participant whose response is accepted or accepted-delayed
\* (the hidden ones left out), once each and to nobody else, and the session is
\* announced completed once
C25_CompletionFanOut ==
    [][AutoCompleted =>
         LET s == loc["reaper"].sess
             expected == {u \in {s.initiatorID} \cup Coming(s.id) : ~users[u].isHidden}
             msgs == sent'["reaper"]
         IN /\ ToldCompleted(msgs, s.id) = expected
            /\ \A i, j \in 1..Len(msgs) : msgs[i].to = msgs[j].to => i = j
            /\ announced'[s.id] = Append(announced[s.id], "completed")
            /\ "completed" \notin {announced[s.id][i] : i \in 1..Len(announced[s.id])}
    ]_vars

-----------------------------------------------------------------------------
(* The reaper ticking for ever: the ticker fires, every statement it starts *)
(* ends, and the store does not refuse the reaper's statements for ever.    *)

RetryFairness ==
    /\ WF_vars(ReaperTick)
    /\ WF_vars(AutoCompleteOldSessions("reaper"))
    /\ WF_vars(AutoCompleteOldSessions_Complete("reaper"))
    /\ WF_vars(autoCompleteSessionsRoutine)
    /\ WF_vars(Finish("reaper"))
    /\ WF_vars(Tick(FirstNow + MaxTicks))
    /\ SF_vars(AutoCompleteOldSessions("reaper") /\ ~StoreFailed("reaper"))
    /\ SF_vars(AutoCompleteOldSessions_Complete("reaper") /\ ~StoreFailed("reaper"))

SpecRetry == SpecClose /\ RetryFairness

\* an attempt of the reaper has failed while session 1 is open
FailedAttempt ==
    /\ pc["reaper"] = "done"
    /\ loc["reaper"].res = ErrStore
    /\ sessions[1].status = SessionStatusActive

\* C26: a failed AutoCompleteOldSessions changes no session, sends nothing and does not
\* end the reaper; the reaper ticks again, and once the store answers it completes the
\* session (unless cancelled meanwhile) and, the responses read, announces it
C26_ReaperRetries ==
    /\ [][/\ \A label \in {"AutoCompleteOldSessions", "AutoCompleteOldSessions_Complete"} :
               (Leaves("reaper", label) /\ StoreFailed("reaper")) =>
                  /\ sessions' = sessions
                  /\ pc'["reaper"] = "autoCompleteSessionsRoutine"
          /\ (Leaves("reaper", "autoCompleteSessionsRoutine") /\ loc["reaper"].res # Ok) =>
               /\ pc'["reaper"] = "done"
               /\ sent' = sent /\ announced' = announced /\ ~crashed'
          /\ AutoCompleted =>
               \/ sent'["reaper"] = <<>> /\ announced' = announced
               \/ /\ loc["reaper"].sess.initiatorID
                        \in ToldCompleted(sent'["reaper"], loc["reaper"].sess.id)
                  /\ announced'[loc["reaper"].sess.id]
                        = Append(announced[loc["reaper"].sess.id], "completed")
         ]_vars
    /\ (FailedAttempt ~> (pc["reaper"] = "idle"))
    /\ (FailedAttempt ~> (sessions[1].status \in Terminal))

\* the reaper has failed to complete session 1, open and older than the threshold
C26_Witness ==
    /\ FailedAttempt
    /\ now - sessions[1].createdAt > AutoCompleteAge
    /\ sent["reaper"] = <<>> /\ announced[1] = <<>>
    /\ ~crashed

-----------------------------------------------------------------------------
(* Properties of the error handling *)

\* C27: whatever error a handler or the reaper meets, the process does not die
C27_NoCrash == ~crashed

\* thread p ends a handler, and the transport has refused one of its messages
DeliveryFailed(p) ==
    /\ pc[p] # "done"
    /\ pc'[p] = "done"
    /\ loc'[p].undelivered # {}

MarkingRemote(u) ==
    \E p \in Procs :
       /\ pc[p] = "RespondToSession_Add"
       /\ loc[p].uid = u
       /\ loc[p].kind = ResponseRemote

\* C29: an operation whose statement fails leaves the store as it was before the
\* operation: a participant nobody had marked remote, and none of whose responses has
\* been recorded, is not remote once RespondToSession has returned (no remote mark
\* without a recorded response)
C29_FailedResponseLeavesNoMark ==
    \A u \in UserIds :
       (/\ users[u].id # 0
        /\ ~MarkingRemote(u)
        /\ \A r \in responses : r.userID # u)
          => /\ ~users[u].isRemoteToday
             /\ users[u].remoteUntil = NoUser.remoteUntil

-----------------------------------------------------------------------------
(* The process starting over a store a previous run has left: one session,  *)
(* Active, up to MaxLeftoverAge units old, answered by participant 2        *)
(* or by nobody.  NewSmokeService runs its pass, then the bot starts.       *)

MaxLeftoverAge == 6  \* units of age of the session a previous run has left

InitBoot ==
    /\ now = FirstNow
    /\ nsec = 0
    /\ users = [u \in UserIds |->
                  IF u = MaxUser THEN NoUser ELSE NewUser(u, "user" \o ToString(u))]
    /\ \E age \in 0..MaxLeftoverAge :
         /\ sessions = SessionCreate(<<>>, 1, SessionStatusActive, FirstNow - age)
         /\ \/ responses = {} /\ lastKind = NoResponses
            \/ /\ responses = AddResponse({}, 1, 2, ResponseAccepted, FirstNow - age)
               /\ lastKind = [NoResponses EXCEPT ![<<1, 2>>] = ResponseAccepted]
    /\ pc = [p \in Procs |-> IF p = "fg" THEN "CleanupOldSessions" ELSE "off"]
    /\ loc = [p \in Procs |-> IF p = "fg" THEN [Locals EXCEPT !.ret = "Start"] ELSE Locals]
    /\ sent = [p \in Procs |-> <<>>]
    /\ announced = [s \in SessionIds |-> <<>>]
    /\ crashed = FALSE

NextBoot ==
    \/ CleanupOldSessions("fg")
    \/ CompleteSession("fg")
    \/ Start
    \/ ReaperTick
    \/ AutoCompleteOldSessions("reaper")
    \/ AutoCompleteOldSessions_Complete("reaper")
    \/ autoCompleteSessionsRoutine
    \/ Finish("reaper")
    \/ Tick(FirstNow + MaxTicks)

SpecBoot == InitBoot /\ [][NextBoot]_vars

\* NewSmokeService has not returned yet
Starting == pc["fg"] \in {"CleanupOldSessions", "CompleteSession"}

\* C30: the pass NewSmokeService runs before the bot starts completes the session left
\* Active if and only if it is older than one hour, leaves a younger one Active, and
\* sends and announces nothing; if a statement of the pass fails, the sessions stay as
\* they were and the bot starts all the same
C30_StartupCleanup ==
    [][Starting =>
         /\ sent' = sent /\ announced' = announced
         /\ users' = users /\ responses' = responses
         /\ pc'["reaper"] = "off"
         /\ (Leaves("fg", "CleanupOldSessions") /\ ~StoreFailed("fg")) =>
               /\ sessions' = sessions
               /\ IF \E i \in 1..Len(sessions) :
                        /\ sessions[i].status = SessionStatusActive
                        /\ now - sessions[i].createdAt > CleanupAge
                  THEN /\ pc'["fg"] = "CompleteSession"
                       /\ sessions[loc'["fg"].sid].status = SessionStatusActive
                       /\ now - sessions[loc'["fg"].sid].createdAt > CleanupAge
                  ELSE pc'["fg"] = "Start"
         /\ (Leaves("fg", "CompleteSession") /\ ~StoreFailed("fg")) =>
               /\ pc'["fg"] = "Start"
               /\ sessions' = [sessions EXCEPT
                                 ![loc["fg"].sid].status = SessionStatusCompleted,
                                 ![loc["fg"].sid].completedAt = now]
         /\ (\E label \in {"CleanupOldSessions", "CompleteSession"} :
                Leaves("fg", label) /\ StoreFailed("fg")) =>
               /\ sessions' = sessions
               /\ pc'["fg"] = "Start"
    ]_vars

\* the session left Active an hour and a quarter ago has been completed by the pass,
\* the bot is about to start and nothing has been sent
C30_Witness ==
    /\ pc["fg"] = "Start"
    /\ loc["fg"].res = Ok
    /\ sessions[1].status = SessionStatusCompleted
    /\ sessions[1].completedAt - sessions[1].createdAt = CleanupAge + 1
    /\ sent["fg"] = <<>>
    /\ announced[1] = <<>>

-----------------------------------------------------------------------------
(* The participant directory on its own: registrations, remote marks and    *)
(* the expiry that GetActiveUsers runs, by one caller at a time (as the     *)
(* update loop calls them) and by two callers whose calls overlap           *)

DirectoryStep(p) ==
    \/ CallRegisterUser(p)
    \/ CallSetRemoteStatus(p)
    \/ CallClearRemoteStatus(p)
    \/ CallGetActiveUsers(p)
    \/ RegisterUser(p)
    \/ RegisterUser_Update(p)
    \/ RegisterUser_Create(p)
    \/ SetRemoteStatus_Update(p)
    \/ ClearRemoteStatus(p)
    \/ ClearRemoteStatus_Update(p)
    \/ GetActiveUsers(p)
    \/ GetActiveUsers_All(p)
    \/ Returned(p)

InitDirectory ==
    /\ now = SvcFirstNow
    /\ nsec = 0
    /\ users = [u \in UserIds |->
                  IF u = MaxUser THEN NoUser ELSE NewUser(u, "user" \o ToString(u))]
    /\ sessions = <<>>
    /\ responses = {}
    /\ pc = [p \in Procs |-> IF p = "c1" THEN "idle" ELSE "off"]
    /\ loc = [p \in Procs |-> Locals]
    /\ sent = [p \in Procs |-> <<>>]
    /\ announced = [s \in SessionIds |-> <<>>]
    /\ lastKind = NoResponses
    /\ crashed = FALSE

NextDirectory ==
    \/ DirectoryStep("c1")
    \/ Tick(SvcFirstNow + MaxTicks)

SpecDirectory == InitDirectory /\ [][NextDirectory]_vars

NextDirectoryRace ==
    \/ \E p \in Callers : DirectoryStep(p)
    \/ Tick(SvcFirstNow + MaxTicks)

SpecDirectoryRace == InitSvc /\ [][NextDirectoryRace]_vars

-----------------------------------------------------------------------------
(* Properties of the participant directory *)

\* (helper) participant u is registered
Registered(u) == users[u].id # 0

\* C31: a stored participant who carries the reserved username is hidden, whatever the
\* registrations, remote marks, returns to the office and expiries that overlap
C31_ReservedNameHidden ==
    \A u \in UserIds :
       (Registered(u) /\ users[u].username = ReservedName) => users[u].isHidden

\* the last participant carries the reserved name, is hidden and is marked remote, and
\* a registration has just returned
C31_Witness ==
    /\ users[MaxUser].username = ReservedName
    /\ users[MaxUser].isHidden
    /\ users[MaxUser].isRemoteToday
    /\ \E p \in Callers :
         /\ pc[p] = "returned"
         /\ loc[p].act = "RegisterUser"
         /\ loc[p].res = Ok

-----------------------------------------------------------------------------
(* /smoke around the two ends of the working hours: the bot starts at 08:45 *)
(* or at 22:45, and the clock passes the hour while updates arrive          *)

InitHours ==
    /\ now \in {MorningNow, FirstNow}
    /\ nsec = 0
    /\ users = [u \in UserIds |->
                  IF u = MaxUser THEN NoUser ELSE NewUser(u, "user" \o ToString(u))]
    /\ sessions = <<>>
    /\ responses = {}
    /\ pc = [p \in Procs |-> IF p = "fg" THEN "idle" ELSE "off"]
    /\ loc = [p \in Procs |-> Locals]
    /\ sent = [p \in Procs |-> <<>>]
    /\ announced = [s \in SessionIds |-> <<>>]
    /\ lastKind = NoResponses
    /\ crashed = FALSE

\* (nobody is remote, so the list of invitees is never empty)
NextHours ==
    \/ SmokeCommand
    \/ handleSmoke
    \/ handleSmoke_Started
    \/ handleSmoke_Users
    \/ RegisterUser("fg")
    \/ RegisterUser_Update("fg")
    \/ RegisterUser_Create("fg")
    \/ StartSession("fg")
    \/ StartSession_Create("fg")
    \/ GetActiveUsers("fg")
    \/ GetActiveUsers_All("fg")
    \/ Finish("fg")
    \/ now < FirstNow /\ Tick(MorningNow + MaxTicks)
    \/ now >= FirstNow /\ Tick(FirstNow + MaxTicks)

SpecHours == InitHours /\ [][NextHours]_vars

\* the local hour is before the start or at or after the end of the working hours
OutsideHours == Hour(now) < StartHour \/ Hour(now) >= EndHour

\* C32: /smoke outside the working hours (before 9, or at or after 23) changes nothing
\* in the store and sends only the notice of the working hours, no invitation; within
\* them it goes on to StartSession; and a session is created only by a StartSession that
\* a /smoke within the working hours has called
C32_WorkingHours ==
    [][/\ Leaves("fg", "handleSmoke") =>
            IF OutsideHours
            THEN /\ pc'["fg"] = "done"
                 /\ sent'["fg"] = <<Msg(loc["fg"].from, "not working hours", 0, <<>>)>>
                 /\ sessions' = sessions /\ responses' = responses /\ users' = users
            ELSE pc'["fg"] = "StartSession"
       /\ (pc["fg"] # "StartSession" /\ pc'["fg"] = "StartSession") =>
            pc["fg"] = "handleSmoke" /\ ~OutsideHours
       /\ Len(sessions') > Len(sessions) =>
            pc["fg"] = "StartSession_Create" /\ loc["fg"].ret = "handleSmoke_Started"
    ]_vars

\* /smoke has come at or after 23:00: only the notice has been sent and there is no
\* session
C32_Witness ==
    /\ pc["fg"] = "done"
    /\ Hour(now) >= EndHour
    /\ Len(sent["fg"]) = 1
    /\ sent["fg"][1].kind = "not working hours"
    /\ sessions = <<>>

-----------------------------------------------------------------------------
(* Properties of what AutoCompleteOldSessions returns *)

\* C33: the session AutoCompleteOldSessions returns is the closed one: at the return its
\* status is completed, its completion time is set, and it is the stored row
C33_ReturnsClosedSession ==
    [][\A p \in Procs :
         (Leaves(p, "AutoCompleteOldSessions_Complete") /\ loc'[p].res = Ok) =>
            /\ loc'[p].sess.id = loc[p].sid
            /\ loc'[p].sess.status = SessionStatusCompleted
            /\ loc'[p].sess.completedAt # Null
            /\ loc'[p].sess = sessions'[loc[p].sid]
    ]_vars

-----------------------------------------------------------------------------
(* The bot as wired, an hour before the end of the working hours, taking    *)
(* /smoke and /cancel one update at a time while the reaper ticks           *)

InitWired ==
    /\ now = FirstNow - UnitsPerHour
    /\ nsec = 0
    /\ users = [u \in UserIds |->
                  IF u = MaxUser THEN NoUser ELSE NewUser(u, "user" \o ToString(u))]
    /\ sessions = <<>>
    /\ responses = {}
    /\ pc = [p \in Procs |-> IF p \in Threads THEN "idle" ELSE "off"]
    /\ loc = [p \in Procs |-> Locals]
    /\ sent = [p \in Procs |-> <<>>]
    /\ announced = [s \in SessionIds |-> <<>>]
    /\ lastKind = NoResponses
    /\ crashed = FALSE

NextWired ==
    \/ SmokeCommand
    \/ CancelCommand
    \/ handleSmoke
    \/ handleSmoke_Started
    \/ handleSmoke_Users
    \/ handleCancel
    \/ handleCancel_Cancelled
    \/ RegisterUser("fg")
    \/ RegisterUser_Update("fg")
    \/ RegisterUser_Create("fg")
    \/ StartSession("fg")
    \/ StartSession_Create("fg")
    \/ GetActiveUsers("fg")
    \/ GetActiveUsers_All("fg")
    \/ CancelSession("fg")
    \/ CancelSession_Update("fg")
    \/ ReaperTick
    \/ AutoCompleteOldSessions("reaper")
    \/ AutoCompleteOldSessions_Complete("reaper")
    \/ autoCompleteSessionsRoutine
    \/ \E p \in Threads : Finish(p)
    \/ Tick(FirstNow - UnitsPerHour + MaxTicks)

SpecWired == InitWired /\ [][NextWired]_vars

\* C34: with the handlers run one at a time and only the reaper beside them, at most
\* one session is active
C34_WiredAtMostOneActive == Cardinality(ActiveSessions(sessions)) <= 1

\* a second session is active after the first was closed
C34_Witness ==
    /\ Len(sessions) = 2
    /\ sessions[1].status \in Terminal
    /\ sessions[2].status = SessionStatusActive

-----------------------------------------------------------------------------
(* RespondToSession beside the reaper's AutoCompleteOldSessions: the        *)
(* session is a quarter of an hour old and becomes stale with the next tick *)

InitRespondReap ==
    /\ now = SvcFirstNow + 1
    /\ nsec = 0
    /\ users = [u \in UserIds |->
                  IF u = MaxUser THEN NoUser ELSE NewUser(u, "user" \o ToString(u))]
    /\ sessions = SessionCreate(<<>>, 1, SessionStatusActive,
                                SvcFirstNow + 1 - AutoCompleteAge)
    /\ responses = {}
    /\ pc = [p \in Procs |-> IF p \in Callers THEN "idle" ELSE "off"]
    /\ loc = [p \in Procs |-> Locals]
    /\ sent = [p \in Procs |-> <<>>]
    /\ announced = [s \in SessionIds |-> <<>>]
    /\ lastKind = NoResponses
    /\ crashed = FALSE

NextRespondReap ==
    \/ CallRespondToSession("c1")
    \/ RespondToSession("c1")
    \/ RespondToSession_SetRemote("c1")
    \/ RespondToSession_Add("c1")
    \/ CallAutoCompleteOldSessions("c2")
    \/ AutoCompleteOldSessions("c2")
    \/ AutoCompleteOldSessions_Complete("c2")
    \/ \E p \in Callers : Returned(p)
    \/ Tick(SvcFirstNow + MaxTicks)

SpecRespondReap == InitRespondReap /\ [][NextRespondReap]_vars

\* C35: whatever the interleaving of RespondToSession with the reaper's completion,
\* the response is written, and the responder marked remote, only while the session is
\* still active
C35_NoWriteAfterClose ==
    [][\A p \in Procs :
         \A label \in {"RespondToSession_SetRemote", "RespondToSession_Add"} :
            (Leaves(p, label) /\ ~StoreFailed(p)) =>
               sessions[loc[p].sid].status = SessionStatusActive
    ]_vars

-----------------------------------------------------------------------------
(* Properties of /smoke once the session is created *)

\* the session the /smoke in hand has created, 0 if it has created none
StartedHere ==
    IF pc["fg"] = "handleSmoke_Started" /\ loc["fg"].res = Ok THEN loc["fg"].sess.id
    ELSE IF pc["fg"] \in {"handleSmoke_Users", "handleSmoke_Cancelled"}
    THEN loc["fg"].hsess.id
    ELSE 0

\* C36: when the handler of /smoke ends after creating a session, the session is
\* cancelled or at least one invitation to it has been sent
C36_StartedMeansInvited ==
    [][(StartedHere # 0 /\ pc'["fg"] = "done") =>
          \/ sessions'[StartedHere].status = SessionStatusCancelled
          \/ Invited(sent'["fg"], StartedHere) # {}
    ]_vars

-----------------------------------------------------------------------------
(* Properties of the life of a session *)

\* session 1 is active and older than the reaper's threshold
ActiveAndStale ==
    /\ sessions[1].status = SessionStatusActive
    /\ now - sessions[1].createdAt > AutoCompleteAge

\* C37: with the clock advancing, the reaper ticking and the store answering in the
\* end, the active session is completed or cancelled; a tick of the reaper whose
\* statements succeed while the session is active and older than the threshold
\* completes it
C37_EventuallyClosed ==
    /\ [][/\ (Leaves("reaper", "AutoCompleteOldSessions") /\ ~StoreFailed("reaper")
                /\ ActiveAndStale) =>
               /\ pc'["reaper"] = "AutoCompleteOldSessions_Complete"
               /\ loc'["reaper"].sid = 1
          /\ (Leaves("reaper", "AutoCompleteOldSessions_Complete")
                /\ ~StoreFailed("reaper")) =>
               sessions'[loc["reaper"].sid].status = SessionStatusCompleted
         ]_vars
    /\ ((sessions[1].status = SessionStatusActive) ~> (sessions[1].status \in Terminal))

\* the reaper has completed session 1 at its first tick after the threshold and is
\* about to announce it
C37_Witness ==
    /\ pc["reaper"] = "autoCompleteSessionsRoutine"
    /\ loc["reaper"].res = Ok
    /\ loc["reaper"].sess.id = 1
    /\ sessions[1].status = SessionStatusCompleted
    /\ sessions[1].completedAt - sessions[1].createdAt = AutoCompleteAge + 1
    /\ announced[1] = <<>>

\* C38: a participant is remote today exactly when remoteUntil is set, whatever
\* registrations, remote marks, returns to the office and expiries have run; and
\* registering a participant again keeps the remote mark and its end as they are
C38_RemoteFieldsTogether ==
    /\ [](\A u \in UserIds :
            Registered(u) => (users[u].isRemoteToday <=> users[u].remoteUntil # Null))
    /\ [][\A p \in Procs :
            (Leaves(p, "RegisterUser_Update") /\ ~StoreFailed(p)) =>
               /\ users'[loc[p].uid].isRemoteToday = users[loc[p].uid].isRemoteToday
               /\ users'[loc[p].uid].remoteUntil = users[loc[p].uid].remoteUntil
         ]_vars

\* a participant marked remote has been registered again and is still remote
C38_Witness ==
    /\ pc["c1"] = "returned"
    /\ loc["c1"].act = "RegisterUser"
    /\ loc["c1"].res = Ok
    /\ users[loc["c1"].from].isRemoteToday
    /\ users[loc["c1"].from].remoteUntil # Null

\* C39: a participant once hidden stays hidden, whatever is registered (a username
\* other than the reserved one included), marked, cleared or expired afterwards
C39_HiddenForGood ==
    [][\A u \in UserIds : users[u].isHidden => users'[u].isHidden]_vars

\* the last participant has dropped the reserved username and is still hidden
C39_Witness ==
    /\ Registered(MaxUser)
    /\ users[MaxUser].username # ReservedName
    /\ users[MaxUser].isHidden

-----------------------------------------------------------------------------
(* Properties of what a response may change *)

\* the callback in hand names a session that is not the active one
NotTheActiveSession ==
    \A i \in ActiveSessions(sessions) : sessions[i].id # loc["fg"].hsid

\* the response rows other than the one of session sid and participant u
OtherRows(rs, sid, u) == {r \in rs : ~(r.sessionID = sid /\ r.userID = u)}

\* C40: a response callback for a session that is not the active one records nothing,
\* marks nobody remote and sends only the answer that the session is no longer active;
\* a RespondToSession that succeeds changes the responder's own response row and, for
\* remote, the responder's remote fields, and neither a session nor another
\* participant's response or row
C40_ResponseFrame ==
    [][/\ (Leaves("fg", "handleCallbackQuery") /\ NotTheActiveSession) =>
            /\ pc'["fg"] = "done"
            /\ sent'["fg"] = <<Msg(loc["fg"].from, "no longer active", loc["fg"].hsid, <<>>)>>
            /\ responses' = responses /\ users' = users /\ sessions' = sessions
       /\ Leaves("fg", "RespondToSession") =>
            /\ responses' = responses /\ users' = users /\ sessions' = sessions
       /\ Leaves("fg", "RespondToSession_SetRemote") =>
            /\ responses' = responses /\ sessions' = sessions
            /\ OthersKept(loc["fg"].uid)
            /\ IdentityKept(loc["fg"].uid)
       /\ Leaves("fg", "RespondToSession_Add") =>
            /\ users' = users /\ sessions' = sessions
            /\ OtherRows(responses', loc["fg"].sid, loc["fg"].uid)
                  = OtherRows(responses, loc["fg"].sid, loc["fg"].uid)
    ]_vars

\* a button of session 2 was pressed while session 1 is the active one: the answer
\* is that the session is no longer active, and nothing is recorded for session 2
C40_Witness ==
    /\ pc["fg"] = "done"
    /\ loc["fg"].act \in Actions
    /\ loc["fg"].hsid = 2
    /\ sessions[1].status = SessionStatusActive
    /\ sent["fg"] = <<Msg(loc["fg"].from, "no longer active", 2, <<>>)>>
    /\ \A r \in responses : r.sessionID # 2
    /\ \E r \in responses : r.userID # loc["fg"].from

====
